---- MODULE Spec2Model ----
(***************************************************************************)
(* Model of the e-invoice backend: models/invoice.go (EInvoice.Validate,   *)
(* EInvoice.CalculateTotals) and the invoice request handlers of main.go   *)
(* working on the invoices table.                                          *)
(*                                                                         *)
(* Numbers.  The float64 fields are modelled exactly on the values used:   *)
(* Qty, UnitPrice and GstRt are whole numbers, and the money amounts       *)
(* (TotAmt, AssAmt, IgstAmt, TotItemVal, ValDtls) are held in hundredths,  *)
(* so that "x * GstRt / 100" is exact.  NaN is a float64 value of its own  *)
(* (strconv.ParseFloat returns it for the cell "NaN"): arithmetic          *)
(* propagates it and every ordered comparison with it is false.            *)
(*                                                                         *)
(* Strings the code inspects character by character (the GSTIN, numeric    *)
(* spreadsheet cells) are sequences of one-character strings; strings the  *)
(* code only copies and compares are TLA+ strings.                         *)
(***************************************************************************)
EXTENDS Integers, Sequences, FiniteSets, TLC

VARIABLES
    inv,       \* the EInvoice a direct call of Validate / CalculateTotals acts on
    arg,       \* that invoice as it was before the call
    callee,    \* the method called last on inv ("none" before any call)
    ret,       \* what the last Validate returned ("nil" or the error text)
    invoices,  \* the rows of the invoices table
    nextId,    \* the next value of the table's SERIAL id sequence
    served,    \* the number of requests served so far
    last,      \* the last request served and the response it produced
    conns,     \* per connection, the request whose handler is between two
               \* statements, or the response it got
    users,     \* the rows of the users table
    nextUserId \* the next value of that table's SERIAL id sequence

vars == <<inv, arg, callee, ret, invoices, nextId, served, last, conns, users, nextUserId>>

-----------------------------------------------------------------------------
(* Bounds of the model *)

MaxItems == 2      \* longest ItemList of a directly constructed invoice

MaxBatch == 2      \* most invoices in the array of one generate-invoice request

MaxRows == 2       \* most data rows of an uploaded sheet

MaxRequests == 3   \* requests served in one behaviour

MaxImports == 2    \* requests served in one behaviour of batch imports

MaxSheetRows == 3
\* connections on which handlers run concurrently
MaxConns == 3  \* most data rows of the sheet of a single upload

-----------------------------------------------------------------------------
(* float64 *)

NaN == -999999

Hundred == 100

\* a * b for two whole numbers, the product as an amount (in hundredths)
FMul(a, b) == IF a = NaN \/ b = NaN THEN NaN ELSE a * b * Hundred

\* a * r / 100 for an amount a and a whole number r
FPercent(a, r) == IF a = NaN \/ r = NaN THEN NaN ELSE (a * r) \div Hundred

\* a + b for two amounts
FAdd(a, b) == IF a = NaN \/ b = NaN THEN NaN ELSE a + b

\* a < 0 and a <= 0: false for NaN
FNeg(a) == a # NaN /\ a < 0

FNonPos(a) == a # NaN /\ a <= 0

-----------------------------------------------------------------------------
(* models/invoice.go *)

Digit == {"0", "1", "2", "3", "4", "5", "6", "7", "8", "9"}

Upper == {"A", "B", "C", "D", "E", "F", "G", "H", "I", "J", "K", "L", "M",
          "N", "O", "P", "Q", "R", "S", "T", "U", "V", "W", "X", "Y", "Z"}

\* the character class of each position of
\* ^[0-9]{2}[A-Z]{5}[0-9]{4}[A-Z]{1}[0-9A-Z]{1}Z[0-9A-Z]{1}$
GstinClass(p) ==
    IF p \in 1..2 THEN Digit
    ELSE IF p \in 3..7 THEN Upper
    ELSE IF p \in 8..11 THEN Digit
    ELSE IF p = 12 THEN Upper
    ELSE IF p = 13 THEN Digit \cup Upper
    ELSE IF p = 14 THEN {"Z"}
    ELSE Digit \cup Upper

GstinLen == 15

GstinMatchMissingAnchor(s) ==
    /\ Len(s) >= GstinLen
    /\ \A p \in 1..GstinLen : s[p] \in GstinClass(p)

\* gstinRegex.MatchString(s)
GstinMatch(s) ==
    /\ Len(s) = GstinLen
    /\ \A p \in 1..GstinLen : s[p] \in GstinClass(p)

ErrGstin == "invalid seller GSTIN format"

ErrQty == "quantity cannot be negative"

ErrPrice == "unit price must be greater than zero"

\* the loop of Validate over ItemList from position j on
RECURSIVE ValidateItems(_, _)
ValidateItems(items, j) ==
    IF j > Len(items) THEN "nil"
    ELSE IF FNeg(items[j].Qty) THEN ErrQty
    ELSE IF FNonPos(items[j].UnitPrice) THEN ErrPrice
    ELSE ValidateItems(items, j + 1)

ValidateChecksDocument(i) ==
    IF ~GstinMatch(i.SellerDtls.Gstin) THEN ErrGstin
    ELSE IF i.DocDtls.No = "" THEN "document number missing"
    ELSE ValidateItems(i.ItemList, 1)

\* EInvoice.Validate: "nil" or the error's text
Validate(i) ==
    IF ~GstinMatch(i.SellerDtls.Gstin) THEN ErrGstin
    ELSE ValidateItems(i.ItemList, 1)

ValidateLeavesClamped(i) ==
    [i EXCEPT !.ItemList =
        [j \in 1..Len(i.ItemList) |->
            [i.ItemList[j] EXCEPT !.Qty = IF FNeg(@) THEN 0 ELSE @]]]

\* the receiver *i as i.Validate() leaves it: the method reads i.SellerDtls
\* and copies of the items, assigns to no field and keeps nothing
ValidateLeaves(i) == i

CalcItemKeepsAssAmt(it) ==
    LET tot == FMul(it.Qty, it.UnitPrice)
        igst == FPercent(it.AssAmt, it.GstRt)
    IN  [it EXCEPT !.TotAmt = tot, !.IgstAmt = igst,
                   !.TotItemVal = FAdd(it.AssAmt, igst)]

CalcItemResetsRate(it) ==
    LET tot == FMul(it.Qty, it.UnitPrice)
        igst == FPercent(tot, it.GstRt)
    IN  [it EXCEPT !.TotAmt = tot, !.AssAmt = tot, !.IgstAmt = igst,
                   !.TotItemVal = FAdd(tot, igst), !.GstRt = 0]

\* the body of the loop of CalculateTotals for one item
CalcItem(it) ==
    LET tot == FMul(it.Qty, it.UnitPrice)
        igst == FPercent(tot, it.GstRt)
    IN  [it EXCEPT !.TotAmt = tot, !.AssAmt = tot, !.IgstAmt = igst,
                   !.TotItemVal = FAdd(tot, igst)]

\* totalAssVal / totalIgstVal after the loop has run over items[1..n]
RECURSIVE SumField(_, _, _)
SumField(items, n, f) ==
    IF n = 0 THEN 0 ELSE FAdd(SumField(items, n - 1, f), items[n][f])

CalcValDtlsAccumulates(v, items) ==
    LET a == FAdd(v.AssVal, SumField(items, Len(items), "AssAmt"))
        g == FAdd(v.IgstVal, SumField(items, Len(items), "IgstAmt"))
    IN  [AssVal |-> a, IgstVal |-> g, TotInvVal |-> FAdd(a, g)]

\* the ValDtls CalculateTotals writes, from the recomputed items
CalcValDtls(v, items) ==
    LET a == SumField(items, Len(items), "AssAmt")
        g == SumField(items, Len(items), "IgstAmt")
    IN  [AssVal |-> a, IgstVal |-> g, TotInvVal |-> FAdd(a, g)]

\* EInvoice.CalculateTotals
CalculateTotals(i) ==
    LET items == [j \in 1..Len(i.ItemList) |-> CalcItem(i.ItemList[j])]
    IN  [i EXCEPT !.ItemList = items, !.ValDtls = CalcValDtls(i.ValDtls, items)]

-----------------------------------------------------------------------------
(* Invoices that Validate and CalculateTotals are called on directly *)

GoodGstin == <<"0", "7", "A", "A", "D", "C", "S", "0", "4", "7", "2", "N", "1", "Z", "1">>

\* the derived fields of an item or of ValDtls not yet computed (0) or left
\* over from the client or from an earlier state of the invoice
Stale == 777

Item(sl, q, p, r, d) ==
    [SlNo |-> sl, PrdDesc |-> "Computer Monitor", IsServc |-> "N", HsnCd |-> "8471",
     Qty |-> q, Unit |-> "PCS", UnitPrice |-> p, TotAmt |-> d, AssAmt |-> d,
     GstRt |-> r, IgstAmt |-> d, TotItemVal |-> d]

EInvoice(no, gstin, items, d) ==
    [Version |-> "1.1",
     TranDtls |-> [TaxSch |-> "GST", SupTyp |-> "B2B", RegRev |-> "N"],
     DocDtls |-> [Typ |-> "INV", No |-> no, Dt |-> "25/03/2023"],
     SellerDtls |-> [Gstin |-> gstin, LglNm |-> "Sample Seller Ltd",
                     TrdNm |-> "Sample Trading Co", Addr1 |-> "123 Business Park",
                     Addr2 |-> "Floor 4", Loc |-> "Mumbai", Pin |-> 400001,
                     Stcd |-> "27"],
     BuyerDtls |-> [Gstin |-> "06AABCS1234Z1Z1", LglNm |-> "Sample Buyer Ltd",
                    TrdNm |-> "Sample Customer", Pos |-> "06",
                    Addr1 |-> "456 Industrial Area", Addr2 |-> "Block B",
                    Loc |-> "Delhi", Pin |-> 110001, Stcd |-> "06"],
     ItemList |-> items,
     ValDtls |-> [AssVal |-> d, IgstVal |-> d, TotInvVal |-> d],
     ExpDtls |-> [ForCur |-> "null", CntCode |-> "null"]]

SeqsUpTo(S, n) == UNION {[1..k -> S] : k \in 0..n}

\* one character of s replaced, s cut short, or s with a character appended
GstinChars == {"0", "9", "A", "Z", "a", "z", "-", " "}

GstinVariants ==
    {[GoodGstin EXCEPT ![p] = c] : p \in 1..Len(GoodGstin), c \in GstinChars}
        \cup {SubSeq(GoodGstin, 1, n) : n \in 0..Len(GoodGstin)}
        \cup {Append(GoodGstin, c) : c \in GstinChars}

ShortGstin == SubSeq(GoodGstin, 1, Len(GoodGstin) - 1)

\* items as Validate sees them: every sign of Qty and of UnitPrice, and NaN
ValidateItemsIn ==
    {Item("1", q, p, 18, 0) : q \in {-1, 0, 2, NaN}, p \in {-1, 0, 15000, NaN}}

\* items as CalculateTotals sees them: derived fields unset or stale
CalcItemsIn ==
    {Item("1", q, p, r, d) : q \in {0, 2, NaN}, p \in {15000, -1},
                              r \in {18, 5}, d \in {0, Stale}}

InvoiceInputs ==
    {EInvoice("INV-001", g, its, 0) :
        g \in GstinVariants,
        its \in {<<>>, <<Item("1", 2, 15000, 18, 0)>>, <<Item("1", -1, 0, 18, 0)>>}}
    \cup {EInvoice("INV-001", g, its, 0) :
        g \in {GoodGstin, ShortGstin}, its \in SeqsUpTo(ValidateItemsIn, MaxItems)}
    \cup {EInvoice("INV-001", GoodGstin, its, d) :
        its \in SeqsUpTo(CalcItemsIn, MaxItems), d \in {0, Stale}}

NoRequest == [op |-> "none"]

Conns == 1..MaxConns

\* a connection on which no request has arrived
Idle == [pc |-> "idle"]

InitInvoice ==
    /\ inv \in InvoiceInputs
    /\ arg = inv
    /\ callee = "none"
    /\ ret = "none"
    /\ invoices = {}
    /\ nextId = 1
    /\ served = 0
    /\ last = NoRequest
    /\ conns = [c \in Conns |-> Idle]
    /\ users = {}
    /\ nextUserId = 1

\* err := i.Validate()
CallValidate ==
    /\ arg' = inv
    /\ callee' = "Validate"
    /\ ret' = Validate(inv)
    /\ inv' = ValidateLeaves(inv)
    /\ UNCHANGED <<invoices, nextId, served, last, conns, users, nextUserId>>

\* i.CalculateTotals()
CallCalculateTotals ==
    /\ arg' = inv
    /\ callee' = "CalculateTotals"
    /\ inv' = CalculateTotals(inv)
    /\ UNCHANGED <<ret, invoices, nextId, served, last, conns, users, nextUserId>>

NextInvoice == CallValidate \/ CallCalculateTotals

SpecInvoice == InitInvoice /\ [][NextInvoice]_vars

-----------------------------------------------------------------------------
(* Text conversions *)

DigitChar(d) ==
    CASE d = 0 -> "0" [] d = 1 -> "1" [] d = 2 -> "2" [] d = 3 -> "3"
      [] d = 4 -> "4" [] d = 5 -> "5" [] d = 6 -> "6" [] d = 7 -> "7"
      [] d = 8 -> "8" [] d = 9 -> "9"

DigitVal(c) ==
    CASE c = "0" -> 0 [] c = "1" -> 1 [] c = "2" -> 2 [] c = "3" -> 3
      [] c = "4" -> 4 [] c = "5" -> 5 [] c = "6" -> 6 [] c = "7" -> 7
      [] c = "8" -> 8 [] c = "9" -> 9

\* the decimal digits of n >= 0, as characters
RECURSIVE Digits(_)
Digits(n) == IF n < 10 THEN <<DigitChar(n)>>
             ELSE Append(Digits(n \div 10), DigitChar(n % 10))

\* the characters of cs joined into one string
RECURSIVE Join(_)
Join(cs) == IF cs = <<>> THEN "" ELSE Head(cs) \o Join(Tail(cs))

\* strconv.Itoa(n), n >= 0
Itoa(n) == Join(Digits(n))

\* the value of the digits cs read after the value acc
RECURSIVE DigitsVal(_, _)
DigitsVal(cs, acc) ==
    IF cs = <<>> THEN acc ELSE DigitsVal(Tail(cs), acc * 10 + DigitVal(Head(cs)))

AllDigits(cs) == cs # <<>> /\ \A k \in 1..Len(cs) : cs[k] \in Digit

Unsigned(cs) ==
    IF cs # <<>> /\ Head(cs) \in {"-", "+"} THEN Tail(cs) ELSE cs

\* v, _ := strconv.ParseFloat(cell, 64) on a cell holding a whole number, the
\* text NaN or anything else: a syntax error leaves v = 0
ParseFloat(cs) ==
    IF cs = <<"N", "a", "N">> THEN NaN
    ELSE IF AllDigits(Unsigned(cs))
         THEN IF Head(cs) = "-" THEN 0 - DigitsVal(Unsigned(cs), 0)
              ELSE DigitsVal(Unsigned(cs), 0)
    ELSE 0

\* fmt.Sprintf("%.2f", a) for an amount a (in hundredths)
FormatFixed2(a) ==
    IF a = NaN THEN "NaN"
    ELSE LET m == IF a < 0 THEN 0 - a ELSE a
         IN  (IF a < 0 THEN "-" ELSE "") \o Itoa(m \div Hundred) \o "."
                 \o DigitChar((m % Hundred) \div 10) \o DigitChar(m % 10)

\* the JSON number encoding/json writes for a float64 (held in hundredths):
\* the sign, the integer part and the two decimals of its decimal text
JsonNumber(a) ==
    LET m == IF a < 0 THEN 0 - a ELSE a
    IN  [neg |-> a < 0, int |-> m \div Hundred, frac |-> m % Hundred]

JsonNumberValUnsigned(n) == n.int * Hundred + n.frac

\* the float64, in hundredths, that encoding/json reads from a JSON number
JsonNumberVal(n) ==
    IF n.neg THEN 0 - (n.int * Hundred + n.frac) ELSE n.int * Hundred + n.frac

-----------------------------------------------------------------------------
(* encoding/json of an EInvoice *)

\* Qty, UnitPrice and GstRt are whole numbers; the document holds them, like
\* the amounts, as JSON numbers
JsonWhole(n) == JsonNumber(n * Hundred)

JsonWholeVal(n) == JsonNumberVal(n) \div Hundred

ItemHasNaN(it) ==
    \E f \in {"Qty", "UnitPrice", "TotAmt", "AssAmt", "GstRt", "IgstAmt", "TotItemVal"} :
        it[f] = NaN

HasNaN(i) ==
    \/ \E j \in 1..Len(i.ItemList) : ItemHasNaN(i.ItemList[j])
    \/ \E f \in {"AssVal", "IgstVal", "TotInvVal"} : i.ValDtls[f] = NaN

MarshalItem(it) ==
    [it EXCEPT !.Qty = JsonWhole(@), !.UnitPrice = JsonWhole(@), !.GstRt = JsonWhole(@),
               !.TotAmt = JsonNumber(@), !.AssAmt = JsonNumber(@),
               !.IgstAmt = JsonNumber(@), !.TotItemVal = JsonNumber(@)]

UnmarshalItem(d) ==
    [d EXCEPT !.Qty = JsonWholeVal(@), !.UnitPrice = JsonWholeVal(@),
              !.GstRt = JsonWholeVal(@),
              !.TotAmt = JsonNumberVal(@), !.AssAmt = JsonNumberVal(@),
              !.IgstAmt = JsonNumberVal(@), !.TotItemVal = JsonNumberVal(@)]

\* the document json.Marshal(invoice) writes; Marshal fails on a NaN
MarshalDoc(i) ==
    [i EXCEPT !.ItemList = [j \in 1..Len(i.ItemList) |-> MarshalItem(i.ItemList[j])],
              !.ValDtls = [AssVal |-> JsonNumber(i.ValDtls.AssVal),
                           IgstVal |-> JsonNumber(i.ValDtls.IgstVal),
                           TotInvVal |-> JsonNumber(i.ValDtls.TotInvVal)]]

Marshal(i) ==
    IF HasNaN(i) THEN [err |-> TRUE] ELSE [err |-> FALSE, json |-> MarshalDoc(i)]

\* json.Unmarshal(doc, &invoice) / ShouldBindJSON of a well-formed document
Unmarshal(d) ==
    [d EXCEPT !.ItemList = [j \in 1..Len(d.ItemList) |-> UnmarshalItem(d.ItemList[j])],
              !.ValDtls = [AssVal |-> JsonNumberVal(d.ValDtls.AssVal),
                           IgstVal |-> JsonNumberVal(d.ValDtls.IgstVal),
                           TotInvVal |-> JsonNumberVal(d.ValDtls.TotInvVal)]]

\* fmt.Sprintf("%s:%.2f", invoice.DocDtls.No, invoice.ValDtls.TotInvVal)
QrContent(i) == i.DocDtls.No \o ":" \o FormatFixed2(i.ValDtls.TotInvVal)

\* qrcode.Encode(content, qrcode.Medium, 256): the image that encodes content
QrEncode(content) == [png |-> content]

-----------------------------------------------------------------------------
(* The invoices table (createTables) and the statements run on it.  A row is *)
(* [id, user_id, seller_gstin, invoice_no, invoice_json, qr_code, exported]. *)

InvoiceNoMax == 50

GstinColMax == 15

HasNo(tbl, no) == \E r \in tbl : r.invoice_no = no

RowOfNo(tbl, no) == CHOOSE r \in tbl : r.invoice_no = no

\* seller_gstin VARCHAR(15) and invoice_no VARCHAR(50)
FitsColumns(gstin, no) == Len(gstin) <= GstinColMax /\ Len(no) <= InvoiceNoMax

NewRow(id, user, gstin, no, json, qr) ==
    [id |-> id, user_id |-> user, seller_gstin |-> gstin, invoice_no |-> no,
     invoice_json |-> json, qr_code |-> qr, exported |-> FALSE]

\* the errors of the database, as pgx words them
ErrTooLong == "ERROR: value too long for type character varying (SQLSTATE 22001)"

ErrUnique ==
    "ERROR: duplicate key value violates unique constraint \"invoices_invoice_no_key\" (SQLSTATE 23505)"

SqlInsertNotUnique(tbl, id, user, gstin, no, json, qr) ==
    IF ~FitsColumns(gstin, no) THEN [err |-> ErrTooLong, rows |-> tbl]
    ELSE [err |-> "", id |-> id,
          rows |-> tbl \cup {NewRow(id, user, gstin, no, json, qr)}]

\* INSERT INTO invoices (...) VALUES (...) RETURNING id, the id drawn from the
\* sequence before invoice_no UNIQUE is checked
SqlInsert(tbl, id, user, gstin, no, json, qr) ==
    IF ~FitsColumns(gstin, no) THEN [err |-> ErrTooLong, rows |-> tbl]
    ELSE IF HasNo(tbl, no) THEN [err |-> ErrUnique, rows |-> tbl]
    ELSE [err |-> "", id |-> id,
          rows |-> tbl \cup {NewRow(id, user, gstin, no, json, qr)}]

SqlUpsertKeepsOld(tbl, id, user, gstin, no, json, qr) ==
    IF ~FitsColumns(gstin, no) THEN [err |-> ErrTooLong, rows |-> tbl]
    ELSE IF HasNo(tbl, no)
         THEN [err |-> "", id |-> RowOfNo(tbl, no).id, rows |-> tbl]
    ELSE [err |-> "", id |-> id,
          rows |-> tbl \cup {NewRow(id, user, gstin, no, json, qr)}]

SqlUpsertKeepsQr(tbl, id, user, gstin, no, json, qr) ==
    IF ~FitsColumns(gstin, no) THEN [err |-> ErrTooLong, rows |-> tbl]
    ELSE IF HasNo(tbl, no)
         THEN LET r == RowOfNo(tbl, no)
              IN  [err |-> "", id |-> r.id,
                   rows |-> (tbl \ {r}) \cup {[r EXCEPT !.invoice_json = json]}]
    ELSE [err |-> "", id |-> id,
          rows |-> tbl \cup {NewRow(id, user, gstin, no, json, qr)}]

\* as SqlUpsert, but a conflict also sets exported = false
SqlUpsertResetsExported(tbl, id, user, gstin, no, json, qr) ==
    IF ~FitsColumns(gstin, no) THEN [err |-> ErrTooLong, rows |-> tbl]
    ELSE IF HasNo(tbl, no)
         THEN LET r == RowOfNo(tbl, no)
              IN  [err |-> "", id |-> r.id,
                   rows |-> (tbl \ {r})
                       \cup {[r EXCEPT !.invoice_json = json, !.qr_code = qr,
                                       !.exported = FALSE]}]
    ELSE [err |-> "", id |-> id,
          rows |-> tbl \cup {NewRow(id, user, gstin, no, json, qr)}]

\* INSERT ... ON CONFLICT (invoice_no) DO UPDATE SET invoice_json = $4,
\* qr_code = $5 RETURNING id
SqlUpsert(tbl, id, user, gstin, no, json, qr) ==
    IF ~FitsColumns(gstin, no) THEN [err |-> ErrTooLong, rows |-> tbl]
    ELSE IF HasNo(tbl, no)
         THEN LET r == RowOfNo(tbl, no)
              IN  [err |-> "", id |-> r.id,
                   rows |-> (tbl \ {r})
                       \cup {[r EXCEPT !.invoice_json = json, !.qr_code = qr]}]
    ELSE [err |-> "", id |-> id,
          rows |-> tbl \cup {NewRow(id, user, gstin, no, json, qr)}]

\* as SqlCount, without the condition on user_id
SqlCountOfAnyUser(tbl, id, user) == Cardinality({r \in tbl : r.id = id})

\* SELECT COUNT(*) FROM invoices WHERE id = $1 AND user_id = $2
SqlCount(tbl, id, user) == Cardinality({r \in tbl : r.id = id /\ r.user_id = user})

\* UPDATE invoices SET seller_gstin = $1, invoice_no = $2, invoice_json = $3,
\* qr_code = $4 WHERE id = $5 AND user_id = $6
SqlUpdate(tbl, gstin, no, json, qr, id, user) ==
    LET hit == {r \in tbl : r.id = id /\ r.user_id = user}
        new == {[r EXCEPT !.seller_gstin = gstin, !.invoice_no = no,
                          !.invoice_json = json, !.qr_code = qr] : r \in hit}
    IN  IF hit = {} THEN [err |-> "", rows |-> tbl]
        ELSE IF ~FitsColumns(gstin, no) THEN [err |-> ErrTooLong, rows |-> tbl]
        ELSE IF HasNo(tbl \ hit, no) THEN [err |-> ErrUnique, rows |-> tbl]
        ELSE [err |-> "", rows |-> (tbl \ hit) \cup new]

\* UPDATE invoices SET exported = true, ... WHERE id = $2 AND user_id = $3
SqlMarkExported(tbl, id, user) ==
    {IF r.id = id /\ r.user_id = user THEN [r EXCEPT !.exported = TRUE] ELSE r : r \in tbl}

\* DELETE FROM invoices WHERE id = $1 AND user_id = $2
SqlDelete(tbl, id, user) == {r \in tbl : ~(r.id = id /\ r.user_id = user)}

-----------------------------------------------------------------------------
(* The request handlers.  Each yields the table, the sequence and the        *)
(* response it leaves behind.                                                *)

Out(tbl, nid, status, error, results) ==
    [rows |-> tbl, nid |-> nid, status |-> status, error |-> error,
     results |-> results, calls |-> <<>>]

\* a call the handler made of a method of models.EInvoice: on the k-th
\* aggregate of the request, returning r
Call(fn, k, r) == [fn |-> fn, of |-> k, ret |-> r]

\* out, reached after the calls made
After(calls, out) == [out EXCEPT !.calls = calls]

Result(id, no) == [id |-> id, invoice_no |-> no]

\* handleGenerateInvoice, the loop over invoices from position k on
RECURSIVE GenerateLoop(_, _, _, _, _, _, _)
GenerateLoop(user, invs, k, tbl, nid, results, calls) ==
    IF k > Len(invs) THEN After(calls, Out(tbl, nid, 201, "", results))
    ELSE
    LET v == Validate(invs[k])
        validated == Append(calls, Call("Validate", k, v))
        c == CalculateTotals(invs[k])
        calculated == Append(validated, Call("CalculateTotals", k, "none"))
        qr == QrEncode(QrContent(c))
        m == Marshal(c)
        ins == SqlInsert(tbl, nid, user, c.SellerDtls.Gstin, c.DocDtls.No, m.json, qr)
    IN  IF v # "nil" THEN After(validated, Out(tbl, nid, 400, v, results))
        ELSE IF m.err
             THEN After(calculated, Out(tbl, nid, 500, "Failed to serialize invoice", results))
        ELSE IF ins.err # ""
             THEN After(calculated, Out(tbl, nid + 1, 500, "Failed to store invoice", results))
        ELSE GenerateLoop(user, invs, k + 1, ins.rows, nid + 1,
                          Append(results, Result(ins.id, c.DocDtls.No)), calculated)

\* a request body: a JSON array of invoice documents, one invoice document,
\* or text that is not JSON; left marks what is still unread of it
Body(shape, docs) == [shape |-> shape, docs |-> docs, left |-> TRUE]

\* gin's ShouldBindJSON / BindJSON into a value of shape want: the decoder
\* reads the body to its end, so a second bind of the same request finds EOF
BindJSON(body, want) ==
    IF ~body.left THEN [err |-> "EOF", body |-> body]
    ELSE IF body.shape = "text"
         THEN [err |-> "invalid character", body |-> [body EXCEPT !.left = FALSE]]
    ELSE IF body.shape # want
         THEN [err |-> "json: cannot unmarshal " \o body.shape,
               body |-> [body EXCEPT !.left = FALSE]]
    ELSE [err |-> "", body |-> [body EXCEPT !.left = FALSE],
          val |-> [j \in 1..Len(body.docs) |-> Unmarshal(body.docs[j])]]

\* handleGenerateInvoice
HandleGenerateInvoice(tbl, nid, user, body) ==
    LET b == BindJSON(body, "array")
    IN  IF b.err # "" THEN Out(tbl, nid, 400, b.err, <<>>)
        ELSE IF Len(b.val) = 0 THEN Out(tbl, nid, 400, "No invoice data provided", <<>>)
        ELSE GenerateLoop(user, b.val, 1, tbl, nid, <<>>, <<>>)

\* row[c] of the source, whose columns count from 0
Col(row, c) == row[c + 1]

MinColumns == 12

\* m with key k set to v (a Go map)
MapPut(m, k, v) == [x \in DOMAIN m \cup {k} |-> IF x = k THEN v ELSE m[x]]

\* handleUploadExcel, the invoice a row creates for a document number new
\* to invoiceMap
RowInvoice(row) ==
    [Version |-> "1.1",
     TranDtls |-> [TaxSch |-> "GST", SupTyp |-> "EXPWP", RegRev |-> "N"],
     DocDtls |-> [Typ |-> "INV", No |-> Col(row, 1), Dt |-> Col(row, 2)],
     SellerDtls |-> [Gstin |-> Col(row, 0), LglNm |-> "SELLER COMPANY NAME",
                     TrdNm |-> "SELLER TRADE NAME",
                     Addr1 |-> "SELLER ADDRESS LINE 1",
                     Addr2 |-> "SELLER ADDRESS LINE 2", Loc |-> "SELLER CITY",
                     Pin |-> 110001, Stcd |-> "07"],
     BuyerDtls |-> [Gstin |-> Col(row, 3), LglNm |-> Col(row, 4),
                    TrdNm |-> Col(row, 4), Pos |-> "96", Addr1 |-> Col(row, 5),
                    Addr2 |-> "", Loc |-> Col(row, 6), Pin |-> 999999,
                    Stcd |-> "96"],
     ItemList |-> <<>>,
     ValDtls |-> [AssVal |-> 0, IgstVal |-> 0, TotInvVal |-> 0],
     ExpDtls |-> [ForCur |-> "null", CntCode |-> "null"]]

RowItemCountsFromZero(row, n) ==
    LET qty == ParseFloat(Col(row, 7))
        unitPrice == ParseFloat(Col(row, 9))
        gstRate == ParseFloat(Col(row, 10))
    IN  [SlNo |-> Itoa(n), PrdDesc |-> Col(row, 5), IsServc |-> "N",
         HsnCd |-> Col(row, 6), Qty |-> qty, Unit |-> Col(row, 8),
         UnitPrice |-> unitPrice, TotAmt |-> FMul(qty, unitPrice),
         AssAmt |-> FMul(qty, unitPrice), GstRt |-> gstRate,
         IgstAmt |-> FPercent(FMul(qty, unitPrice), gstRate),
         TotItemVal |-> FAdd(FMul(qty, unitPrice),
                             FPercent(FMul(qty, unitPrice), gstRate))]

\* handleUploadExcel, the item a row appends to the n items of its number
RowItem(row, n) ==
    LET qty == ParseFloat(Col(row, 7))
        unitPrice == ParseFloat(Col(row, 9))
        gstRate == ParseFloat(Col(row, 10))
    IN  [SlNo |-> Itoa(n + 1), PrdDesc |-> Col(row, 5), IsServc |-> "N",
         HsnCd |-> Col(row, 6), Qty |-> qty, Unit |-> Col(row, 8),
         UnitPrice |-> unitPrice, TotAmt |-> FMul(qty, unitPrice),
         AssAmt |-> FMul(qty, unitPrice), GstRt |-> gstRate,
         IgstAmt |-> FPercent(FMul(qty, unitPrice), gstRate),
         TotItemVal |-> FAdd(FMul(qty, unitPrice),
                             FPercent(FMul(qty, unitPrice), gstRate))]

RowErrorOfIndex(i) == "Row " \o Itoa(i - 1) \o " does not have enough columns"

\* fmt.Sprintf("Row %d does not have enough columns", i+1) for the source's
\* index i - 1
RowError(i) == "Row " \o Itoa(i) \o " does not have enough columns"

\* handleUploadExcel, the loop over rows from row i of the sheet on (the
\* source's index i - 1); i is the number the error message gives
RECURSIVE ParseRows(_, _, _, _)
ParseRows(rows, i, invoiceMap, itemMap) ==
    IF i > Len(rows) THEN [err |-> "", invoiceMap |-> invoiceMap, itemMap |-> itemMap]
    ELSE IF i = 1 THEN ParseRows(rows, i + 1, invoiceMap, itemMap)
    ELSE IF Len(rows[i]) < MinColumns THEN [err |-> RowError(i)]
    ELSE
    LET row == rows[i]
        invoiceNo == Col(row, 1)
        exists == invoiceNo \in DOMAIN invoiceMap
        invoiceMap1 == IF exists THEN invoiceMap
                       ELSE MapPut(invoiceMap, invoiceNo, RowInvoice(row))
        itemMap1 == IF exists THEN itemMap ELSE MapPut(itemMap, invoiceNo, <<>>)
        item == RowItem(row, Len(itemMap1[invoiceNo]))
    IN  ParseRows(rows, i + 1, invoiceMap1,
                  MapPut(itemMap1, invoiceNo, Append(itemMap1[invoiceNo], item)))

\* handleUploadExcel, the loop over invoiceMap, which ranges over the map's
\* keys in the order Go happens to yield them, from position k of it on
RECURSIVE UploadLoop(_, _, _, _, _, _, _, _, _)
UploadLoop(user, order, k, invoiceMap, itemMap, tbl, nid, results, calls) ==
    IF k > Len(order) THEN After(calls, Out(tbl, nid, 201, "", results))
    ELSE
    LET invoiceNo == order[k]
        c == CalculateTotals([invoiceMap[invoiceNo] EXCEPT !.ItemList = itemMap[invoiceNo]])
        calculated == Append(calls, Call("CalculateTotals", k, "none"))
        v == Validate(c)
        validated == Append(calculated, Call("Validate", k, v))
        qr == QrEncode(QrContent(c))
        m == Marshal(c)
        up == SqlUpsert(tbl, nid, user, c.SellerDtls.Gstin, c.DocDtls.No, m.json, qr)
    IN  IF v # "nil"
        THEN After(validated,
                   Out(tbl, nid, 400, "Invoice " \o invoiceNo \o ": " \o v, results))
        ELSE IF m.err
             THEN After(validated, Out(tbl, nid, 500, "Failed to serialize invoice", results))
        ELSE IF up.err # ""
             THEN After(validated,
                        Out(tbl, nid + 1, 500,
                            "Failed to store invoice " \o invoiceNo \o ": " \o up.err,
                            results))
        ELSE UploadLoop(user, order, k + 1, invoiceMap, itemMap, up.rows, nid + 1,
                        Append(results, Result(up.id, c.DocDtls.No)), validated)

\* the orders in which a range over a map with the keys S can yield them
Orders(S) == {o \in [1..Cardinality(S) -> S] : \A a, b \in DOMAIN o : o[a] = o[b] => a = b}

RECURSIVE ParseRowsLastWins(_, _, _, _)
ParseRowsLastWins(rows, i, invoiceMap, itemMap) ==
    IF i > Len(rows) THEN [err |-> "", invoiceMap |-> invoiceMap, itemMap |-> itemMap]
    ELSE IF i = 1 THEN ParseRowsLastWins(rows, i + 1, invoiceMap, itemMap)
    ELSE IF Len(rows[i]) < MinColumns THEN [err |-> RowError(i)]
    ELSE
    LET row == rows[i]
        invoiceNo == Col(row, 1)
        itemMap1 == IF invoiceNo \in DOMAIN invoiceMap THEN itemMap
                    ELSE MapPut(itemMap, invoiceNo, <<>>)
        item == RowItem(row, Len(itemMap1[invoiceNo]))
    IN  ParseRowsLastWins(rows, i + 1, MapPut(invoiceMap, invoiceNo, RowInvoice(row)),
                          MapPut(itemMap1, invoiceNo, Append(itemMap1[invoiceNo], item)))

ReadRowsLastWins(rows) ==
    IF Len(rows) < 2 THEN [err |-> "Excel file does not contain enough data"]
    ELSE ParseRowsLastWins(rows, 1, <<>>, <<>>)

\* handleUploadExcel up to the end of the loop over the rows of the first
\* sheet: the error to answer with, or invoiceMap and itemMap
\* as ParseRows, but skipping the first row of the sheet only when it does
\* not have the 12 columns of a data row
RECURSIVE ParseRowsUnlessData(_, _, _, _)
ParseRowsUnlessData(rows, i, invoiceMap, itemMap) ==
    IF i > Len(rows) THEN [err |-> "", invoiceMap |-> invoiceMap, itemMap |-> itemMap]
    ELSE IF i = 1 /\ Len(rows[i]) # MinColumns
         THEN ParseRowsUnlessData(rows, i + 1, invoiceMap, itemMap)
    ELSE IF Len(rows[i]) < MinColumns THEN [err |-> RowError(i)]
    ELSE
    LET row == rows[i]
        invoiceNo == Col(row, 1)
        exists == invoiceNo \in DOMAIN invoiceMap
        invoiceMap1 == IF exists THEN invoiceMap
                       ELSE MapPut(invoiceMap, invoiceNo, RowInvoice(row))
        itemMap1 == IF exists THEN itemMap ELSE MapPut(itemMap, invoiceNo, <<>>)
        item == RowItem(row, Len(itemMap1[invoiceNo]))
    IN  ParseRowsUnlessData(rows, i + 1, invoiceMap1,
                           MapPut(itemMap1, invoiceNo, Append(itemMap1[invoiceNo], item)))

ReadRowsUnlessData(rows) ==
    IF Len(rows) < 2 THEN [err |-> "Excel file does not contain enough data"]
    ELSE ParseRowsUnlessData(rows, 1, <<>>, <<>>)

ReadRows(rows) ==
    IF Len(rows) < 2 THEN [err |-> "Excel file does not contain enough data"]
    ELSE ParseRows(rows, 1, <<>>, <<>>)

\* handleUploadExcel, given what ReadRows yields and the order in which the
\* range over invoiceMap yields its keys
HandleUploadExcel(tbl, nid, user, p, order) ==
    IF p.err # "" THEN Out(tbl, nid, 400, p.err, <<>>)
    ELSE UploadLoop(user, order, 1, p.invoiceMap, p.itemMap, tbl, nid, <<>>, <<>>)

\* the keys of invoiceMap
Keys(p) == IF p.err # "" THEN {} ELSE DOMAIN p.invoiceMap

\* handleImportJSON, the loop over invoiceArray from position k on
RECURSIVE ImportLoop(_, _, _, _, _, _, _)
ImportLoop(user, invs, k, tbl, nid, results, calls) ==
    IF k > Len(invs) THEN After(calls, Out(tbl, nid, 201, "", results))
    ELSE
    LET v == Validate(invs[k])
        validated == Append(calls, Call("Validate", k, v))
        c == CalculateTotals(invs[k])
        calculated == Append(validated, Call("CalculateTotals", k, "none"))
        qr == QrEncode(QrContent(c))
        m == Marshal(c)
        up == SqlUpsert(tbl, nid, user, c.SellerDtls.Gstin, c.DocDtls.No, m.json, qr)
    IN  IF v # "nil"
        THEN After(validated, Out(tbl, nid, 400, "Invalid invoice data: " \o v, results))
        ELSE IF m.err
             THEN After(calculated, Out(tbl, nid, 500, "Failed to serialize invoice", results))
        ELSE IF up.err # ""
             THEN After(calculated,
                        Out(tbl, nid + 1, 500, "Failed to store invoice: " \o up.err, results))
        ELSE ImportLoop(user, invs, k + 1, up.rows, nid + 1,
                        Append(results, Result(up.id, c.DocDtls.No)), calculated)

\* handleImportJSON: the body is bound as one invoice and, if that fails,
\* bound again as an array
HandleImportJSON(tbl, nid, user, body) ==
    LET one == BindJSON(body, "object")
        many == BindJSON(one.body, "array")
    IN  IF one.err = "" THEN ImportLoop(user, one.val, 1, tbl, nid, <<>>, <<>>)
        ELSE IF many.err # ""
             THEN Out(tbl, nid, 400, "Invalid JSON format: " \o many.err, <<>>)
        ELSE IF Len(many.val) = 0
             THEN Out(tbl, nid, 400, "No invoice data provided", <<>>)
        ELSE ImportLoop(user, many.val, 1, tbl, nid, <<>>, <<>>)

HandleUpdateInvoiceStoresBody(tbl, nid, user, id, body) ==
    LET b == BindJSON(body, "object")
        v == Validate(b.val[1])
        c == b.val[1]
        qr == QrEncode(QrContent(c))
        m == Marshal(c)
        upd == SqlUpdate(tbl, c.SellerDtls.Gstin, c.DocDtls.No, m.json, qr, id, user)
    IN  IF b.err # "" THEN Out(tbl, nid, 400, "Invalid invoice data: " \o b.err, <<>>)
        ELSE IF v # "nil" THEN Out(tbl, nid, 400, "Invalid invoice data: " \o v, <<>>)
        ELSE IF SqlCount(tbl, id, user) = 0
             THEN Out(tbl, nid, 404, "Invoice not found or not authorized", <<>>)
        ELSE IF m.err THEN Out(tbl, nid, 500, "Failed to serialize invoice", <<>>)
        ELSE IF upd.err # ""
             THEN Out(tbl, nid, 500, "Failed to update invoice: " \o upd.err, <<>>)
        ELSE Out(upd.rows, nid, 200, "", <<>>)

\* handleUpdateInvoice from the QR code on, the invoice c having passed the
\* COUNT check: QR code, serialisation, UPDATE and response
UpdateStore(tbl, nid, user, id, c) ==
    LET qr == QrEncode(QrContent(c))
        m == Marshal(c)
        upd == SqlUpdate(tbl, c.SellerDtls.Gstin, c.DocDtls.No, m.json, qr, id, user)
    IN  IF m.err THEN Out(tbl, nid, 500, "Failed to serialize invoice", <<>>)
        ELSE IF upd.err # ""
             THEN Out(tbl, nid, 500, "Failed to update invoice: " \o upd.err, <<>>)
        ELSE Out(upd.rows, nid, 200, "", <<>>)

\* handleUpdateInvoice
HandleUpdateInvoice(tbl, nid, user, id, body) ==
    LET b == BindJSON(body, "object")
        v == Validate(b.val[1])
        c == CalculateTotals(b.val[1])
        validated == <<Call("Validate", 1, v)>>
        calculated == Append(validated, Call("CalculateTotals", 1, "none"))
    IN  IF b.err # "" THEN Out(tbl, nid, 400, "Invalid invoice data: " \o b.err, <<>>)
        ELSE IF v # "nil"
             THEN After(validated, Out(tbl, nid, 400, "Invalid invoice data: " \o v, <<>>))
        ELSE After(calculated,
             IF SqlCount(tbl, id, user) = 0
             THEN Out(tbl, nid, 404, "Invoice not found or not authorized", <<>>)
             ELSE UpdateStore(tbl, nid, user, id, c))

\* handleMarkInvoiceExported
HandleMarkInvoiceExported(tbl, nid, user, id) ==
    IF SqlCount(tbl, id, user) = 0
    THEN Out(tbl, nid, 404, "Invoice not found or not authorized", <<>>)
    ELSE Out(SqlMarkExported(tbl, id, user), nid, 200, "", <<>>)

\* handleDeleteInvoice
HandleDeleteInvoice(tbl, nid, user, id) ==
    IF SqlDelete(tbl, id, user) = tbl
    THEN Out(tbl, nid, 404, "Invoice not found or not authorized", <<>>)
    ELSE Out(SqlDelete(tbl, id, user), nid, 200, "", <<>>)

\* the text excelize gives back for a number cell set from a float64 that is
\* a whole number n
CellWhole(n) ==
    IF n = NaN THEN <<"N", "a", "N">>
    ELSE IF n < 0 THEN <<"-">> \o Digits(0 - n) ELSE Digits(n)

\* the same for an amount a (in hundredths): no decimals when it has none,
\* else the decimals without a trailing 0
CellAmount(a) ==
    IF a = NaN THEN <<"N", "a", "N">>
    ELSE LET m == IF a < 0 THEN 0 - a ELSE a
             whole == (IF a < 0 THEN <<"-">> ELSE <<>>) \o Digits(m \div Hundred)
             frac == m % Hundred
         IN  IF frac = 0 THEN whole
             ELSE IF frac % 10 = 0 THEN whole \o <<".", DigitChar(frac \div 10)>>
             ELSE whole \o <<".", DigitChar(frac \div 10), DigitChar(frac % 10)>>

\* handleExportInvoices, the headers written to row 1
HeaderRow ==
    <<"GSTIN", "Invoice No", "Invoice Date", "Buyer GSTIN", "Buyer Name",
      "Item Description", "HSN Code", "Quantity", "Unit", "Unit Price",
      "GST Rate", "IGST Amount", "Total Amount">>

\* handleExportInvoices, the cells A..M written for one item of an invoice
ExportRow(i, it) ==
    <<i.SellerDtls.Gstin, i.DocDtls.No, i.DocDtls.Dt, i.BuyerDtls.Gstin,
      i.BuyerDtls.LglNm, it.PrdDesc, it.HsnCd, CellWhole(it.Qty), it.Unit,
      CellWhole(it.UnitPrice), CellWhole(it.GstRt), CellAmount(it.IgstAmt),
      CellAmount(it.TotItemVal)>>

\* handleExportInvoices, the loop over the items of one invoice
ExportItems(i) == [j \in 1..Len(i.ItemList) |-> ExportRow(i, i.ItemList[j])]

\* handleExportInvoices, the loop over the rows selected for the user, which
\* come ORDER BY created_at DESC: the row inserted last (highest id) first
RECURSIVE ExportLoop(_)
ExportLoop(rs) ==
    IF rs = {} THEN <<>>
    ELSE LET r == CHOOSE x \in rs : \A y \in rs : y.id <= x.id
         IN  ExportItems(Unmarshal(r.invoice_json)) \o ExportLoop(rs \ {r})

\* handleExportInvoices: the sheet of the file it serves
HandleExportInvoices(tbl, nid, user) ==
    Out(tbl, nid, 200, "", <<HeaderRow>> \o ExportLoop({r \in tbl : r.user_id = user}))

\* SELECT ... ORDER BY created_at DESC of the rows rs: the row inserted last
\* (highest id) first
RECURSIVE SelectDesc(_)
SelectDesc(rs) ==
    IF rs = {} THEN <<>>
    ELSE LET r == CHOOSE x \in rs : \A y \in rs : y.id <= x.id
         IN  <<r>> \o SelectDesc(rs \ {r})

\* SELECT ... FROM invoices WHERE id = $1 AND user_id = $2
SqlSelect(tbl, id, user) == {r \in tbl : r.id = id /\ r.user_id = user}

\* handleGetInvoices, the entry built for one row
ListEntry(r) ==
    LET i == Unmarshal(r.invoice_json)
    IN  [id |-> r.id, invoice_no |-> r.invoice_no, seller_gstin |-> r.seller_gstin,
         qr_url |-> "/api/qr/" \o Itoa(r.id), exported |-> r.exported,
         buyer_name |-> i.BuyerDtls.LglNm, date |-> i.DocDtls.Dt,
         total_value |-> i.ValDtls.TotInvVal]

\* handleGetInvoices
HandleGetInvoices(tbl, nid, user) ==
    LET rs == SelectDesc({r \in tbl : r.user_id = user})
    IN  Out(tbl, nid, 200, "", [k \in 1..Len(rs) |-> ListEntry(rs[k])])

\* handleGetInvoiceById
HandleGetInvoiceById(tbl, nid, user, id) ==
    LET hit == SqlSelect(tbl, id, user)
    IN  IF hit = {} THEN Out(tbl, nid, 404, "Invoice not found", <<>>)
        ELSE LET r == CHOOSE x \in hit : TRUE
             IN  Out(tbl, nid, 200, "",
                     <<[invoice |-> Unmarshal(r.invoice_json), id |-> id]>>)

\* handleGetQRCode
HandleGetQRCode(tbl, nid, user, id) ==
    LET hit == SqlSelect(tbl, id, user)
    IN  IF hit = {} THEN Out(tbl, nid, 404, "QR code not found", <<>>)
        ELSE LET r == CHOOSE x \in hit : TRUE
             IN  Out(tbl, nid, 200, "", <<r.qr_code>>)

\* handleExportJSON, for a request that passed authMiddleware
HandleExportJSON(tbl, nid, user, id) ==
    LET hit == SqlSelect(tbl, id, user)
    IN  IF hit = {}
        THEN Out(tbl, nid, 404, "Invoice not found: no rows in result set", <<>>)
        ELSE LET r == CHOOSE x \in hit : TRUE
             IN  Out(tbl, nid, 200, "",
                     <<[filename |-> "invoice-" \o r.invoice_no \o ".json",
                        body |-> r.invoice_json]>>)

\* handleExportAllJSON
HandleExportAllJSON(tbl, nid, user) ==
    LET rs == SelectDesc({r \in tbl : r.user_id = user})
    IN  Out(tbl, nid, 200, "", [k \in 1..Len(rs) |-> rs[k].invoice_json])

-----------------------------------------------------------------------------
(* Requests *)

Users == {1, 2}

OtherGstin == <<"2", "7", "A", "A", "D", "C", "S", "0", "4", "7", "2", "N", "1", "Z", "1">>

DocNos == {"INV-001", "INV-002"}

\* invoices as clients send them: derived fields filled with values of the
\* client's own; another seller and two items; a unit price of 0
ClientInvoices ==
    {EInvoice("INV-001", GoodGstin, <<Item("1", 2, 15000, 18, Stale)>>, Stale),
     EInvoice("INV-002", OtherGstin,
              <<Item("1", 1, 200, 5, 0), Item("2", 2, 15000, 18, 0)>>, 0),
     EInvoice("INV-002", GoodGstin, <<Item("1", 2, 0, 18, 0)>>, 0)}

ClientDocs == {MarshalDoc(i) : i \in ClientInvoices}

ArrayBodies == {Body("array", docs) : docs \in SeqsUpTo(ClientDocs, MaxBatch)}

ObjectBodies == {Body("object", <<d>>) : d \in ClientDocs}

\* the array bodies of at most one invoice
ShortArrayBodies == {Body("array", docs) : docs \in SeqsUpTo(ClientDocs, 1)}

TextBody == Body("text", <<>>)

DataRow(gstin, no, dt, buyer, desc, hsn, qty, price, rate) ==
    <<gstin, no, dt, "06AABCS1234Z1Z1", buyer, desc, hsn, qty, "PCS", price, rate, "N">>

DataRows ==
    {DataRow(GoodGstin, "INV-001", "25/03/2023", "Sample Buyer Ltd", "Computer Monitor",
             "8471", <<"2">>, <<"1", "5", "0", "0", "0">>, <<"1", "8">>),
     [DataRow(OtherGstin, "INV-001", "26/03/2023", "Other Buyer Ltd", "Software Service",
              "9983", <<"1">>, <<"2", "0", "0">>, <<"5">>) EXCEPT ![4] = "29AABCO5678Q1Z9"],
     DataRow(OtherGstin, "INV-002", "26/03/2023", "Other Buyer Ltd", "Software Service",
             "9983", <<"1">>, <<"2", "0", "0">>, <<"5">>),
     DataRow(GoodGstin, "INV-002", "25/03/2023", "Sample Buyer Ltd", "Computer Monitor",
             "8471", <<"2">>, <<"a", "b", "c">>, <<"1", "8">>),
     DataRow(GoodGstin, "INV-002", "25/03/2023", "Sample Buyer Ltd", "Computer Monitor",
             "8471", <<"2">>, <<"N", "a", "N">>, <<"1", "8">>),
     <<GoodGstin, "INV-001", "25/03/2023", "06AABCS1234Z1Z1", "Sample Buyer Ltd">>}

Sheets == {<<HeaderRow>> \o rs : rs \in SeqsUpTo(DataRows, MaxRows)} \cup {<<>>}

\* the sheets of up to MaxSheetRows data rows
LongSheets == {<<HeaderRow>> \o rs : rs \in SeqsUpTo(DataRows, MaxSheetRows)}

\* the sheets without a header row: of no row, or with a data row first
HeadlessSheets == SeqsUpTo(DataRows, MaxSheetRows)

\* a row of INV-001 with a negative quantity
NegativeRow ==
    DataRow(GoodGstin, "INV-001", "25/03/2023", "Sample Buyer Ltd", "Computer Monitor",
            "8471", <<"-", "1">>, <<"1", "5", "0", "0", "0">>, <<"1", "8">>)

\* the sheets of two data rows, one of them that row
FailingSheets ==
    {<<HeaderRow, a, b>> : a \in {NegativeRow}, b \in DataRows}
        \cup {<<HeaderRow, a, b>> : a \in DataRows, b \in {NegativeRow}}

\* rows of INV-002 whose quantity cell, or whose tax-rate cell, is text
TextCellRows ==
    {DataRow(GoodGstin, "INV-002", "25/03/2023", "Sample Buyer Ltd", "Computer Monitor",
             "8471", <<"t", "w", "o">>, <<"1", "5", "0", "0", "0">>, <<"1", "8">>),
     DataRow(GoodGstin, "INV-002", "25/03/2023", "Sample Buyer Ltd", "Computer Monitor",
             "8471", <<"2">>, <<"1", "5", "0", "0", "0">>, <<"1", "8", "%">>)}

\* the sheets in which such a row comes first or after another data row
TextCellSheets ==
    {<<HeaderRow, r>> : r \in TextCellRows}
        \cup {<<HeaderRow, a, r>> : a \in DataRows, r \in TextCellRows}

\* the sheets of one data row
OneRowSheets == {<<HeaderRow, r>> : r \in DataRows}

-----------------------------------------------------------------------------
(* The server *)

Init ==
    /\ invoices = {}
    /\ nextId = 1
    /\ served = 0
    /\ last = NoRequest
    /\ inv = EInvoice("INV-001", GoodGstin, <<>>, 0)
    /\ arg = inv
    /\ callee = "none"
    /\ ret = "none"
    /\ conns = [c \in Conns |-> Idle]
    /\ users = {}
    /\ nextUserId = 1

\* the response is written and the statements the handler ran are committed;
\* last keeps the request (the authenticated user, the :id of the path, the
\* body or sheet), the status and error of the response and the handler's
\* results slice as it stood on return
Respond(op, user, id, req, out) ==
    /\ invoices' = out.rows
    /\ nextId' = out.nid
    /\ last' = [op |-> op, user |-> user, id |-> id, req |-> req,
                status |-> out.status, error |-> out.error,
                results |-> out.results, calls |-> out.calls]
    /\ served' = served + 1
    /\ UNCHANGED <<inv, arg, callee, ret, users, nextUserId>>

\* a request whose handler runs from its first statement to its response with
\* no statement of another request in between
Serve(op, user, id, req, out) == Respond(op, user, id, req, out) /\ UNCHANGED conns

\* POST /api/generate-invoice
GenerateInvoice(bodies) ==
    /\ served < MaxRequests
    /\ \E user \in Users, body \in bodies :
        LET out == HandleGenerateInvoice(invoices, nextId, user, body)
        IN  Serve("generate-invoice", user, 0, body, out)

\* POST /api/upload-excel
UploadExcel(sheets) ==
    /\ served < MaxRequests
    /\ \E rows \in sheets :
        LET p == ReadRows(rows)
        IN  \E user \in Users, order \in Orders(Keys(p)) :
                LET out == HandleUploadExcel(invoices, nextId, user, p, order)
                IN  Serve("upload-excel", user, 0, rows, out)

\* POST /api/import-json
ImportJSON(bodies) ==
    /\ served < MaxRequests
    /\ \E user \in Users, body \in bodies :
        LET out == HandleImportJSON(invoices, nextId, user, body)
        IN  Serve("import-json", user, 0, body, out)

\* PUT /api/invoices/:id
UpdateInvoice ==
    /\ served < MaxRequests
    /\ \E user \in Users, id \in 1..nextId, body \in ObjectBodies \cup {TextBody} :
        LET out == HandleUpdateInvoice(invoices, nextId, user, id, body)
        IN  Serve("update", user, id, body, out)

\* PUT /api/invoices/:id/mark-exported
MarkInvoiceExported ==
    /\ served < MaxRequests
    /\ \E user \in Users, id \in 1..nextId :
        LET out == HandleMarkInvoiceExported(invoices, nextId, user, id)
        IN  Serve("mark-exported", user, id, <<>>, out)

\* DELETE /api/invoices/:id
DeleteInvoice ==
    /\ served < MaxRequests
    /\ \E user \in Users, id \in 1..nextId :
        LET out == HandleDeleteInvoice(invoices, nextId, user, id)
        IN  Serve("delete", user, id, <<>>, out)

\* the server under MaxRequests requests that carry at most one invoice each
Next ==
    \/ GenerateInvoice(ShortArrayBodies \cup {TextBody})
    \/ UploadExcel(OneRowSheets)
    \/ ImportJSON(ObjectBodies \cup ShortArrayBodies \cup {TextBody})
    \/ UpdateInvoice
    \/ MarkInvoiceExported
    \/ DeleteInvoice

Spec == Init /\ [][Next]_vars

\* the three requests that create invoices, carrying batches, MaxImports of
\* them in a row
GenerateBatch == served < MaxImports /\ GenerateInvoice(ArrayBodies \cup {TextBody})

UploadBatch == served < MaxImports /\ UploadExcel(Sheets)

ImportDocument ==
    served < MaxImports /\ ImportJSON(ObjectBodies \cup ShortArrayBodies \cup {TextBody})

NextImport == GenerateBatch \/ UploadBatch \/ ImportDocument

SpecImport == Init /\ [][NextImport]_vars

\* invoices generated before an export: those of ClientInvoices and one
\* without items
ExportedInvoices == ClientInvoices \cup {EInvoice("INV-002", GoodGstin, <<>>, 0)}

ExportedBodies ==
    {Body("array", docs) :
        docs \in SeqsUpTo({MarshalDoc(i) : i \in ExportedInvoices}, MaxBatch)}

\* POST /api/generate-invoice before any export
GenerateBeforeExport ==
    /\ served < MaxImports
    /\ last.op \notin {"export-invoices", "upload-excel"}
    /\ GenerateInvoice(ExportedBodies)

\* GET /api/export-invoices; last.results is the sheet of the file served
ExportInvoices ==
    /\ last.op \notin {"export-invoices", "upload-excel"}
    /\ \E user \in Users :
        Serve("export-invoices", user, 0, <<>>,
              HandleExportInvoices(invoices, nextId, user))

\* POST /api/upload-excel by the user who exported, with the file received
UploadExported ==
    /\ last.op = "export-invoices"
    /\ LET p == ReadRows(last.results)
       IN  \E order \in Orders(Keys(p)) :
               Serve("upload-excel", last.user, 0, last.results,
                     HandleUploadExcel(invoices, nextId, last.user, p, order))

NextExport == GenerateBeforeExport \/ ExportInvoices \/ UploadExported

SpecExport == Init /\ [][NextExport]_vars

\* GET /api/invoices
GetInvoices ==
    /\ served < MaxRequests
    /\ \E user \in Users :
        Serve("invoices", user, 0, <<>>, HandleGetInvoices(invoices, nextId, user))

\* GET /api/invoices/:id
GetInvoiceById ==
    /\ served < MaxRequests
    /\ \E user \in Users, id \in 1..nextId :
        Serve("invoice", user, id, <<>>, HandleGetInvoiceById(invoices, nextId, user, id))

\* GET /api/qr/:id
GetQRCode ==
    /\ served < MaxRequests
    /\ \E user \in Users, id \in 1..nextId :
        Serve("qr", user, id, <<>>, HandleGetQRCode(invoices, nextId, user, id))

\* GET /api/export-json/:id
ExportJSON ==
    /\ served < MaxRequests
    /\ \E user \in Users, id \in 1..nextId :
        Serve("export-json", user, id, <<>>, HandleExportJSON(invoices, nextId, user, id))

\* GET /api/export-all-json
ExportAllJSON ==
    /\ served < MaxRequests
    /\ \E user \in Users :
        Serve("export-all-json", user, 0, <<>>, HandleExportAllJSON(invoices, nextId, user))

\* GET /api/export-invoices after at most MaxRequests requests
ExportExcel == served <= MaxRequests /\ ExportInvoices

\* invoices generated one per request
GenerateOne == served < MaxRequests /\ GenerateInvoice(ShortArrayBodies)

\* the requests that read, change or remove the invoices generated
NextAccess ==
    \/ GenerateOne
    \/ GetInvoices
    \/ GetInvoiceById
    \/ UpdateInvoice
    \/ DeleteInvoice
    \/ GetQRCode
    \/ ExportJSON
    \/ ExportAllJSON
    \/ MarkInvoiceExported
    \/ ExportExcel

SpecAccess == Init /\ [][NextAccess]_vars

\* PUT /api/invoices/:id on connection c, up to the answer of its SELECT
\* COUNT: a request that fails before or at the check is answered; one that
\* passes has its UPDATE still to run
UpdateChecks(c) ==
    /\ served < MaxRequests
    /\ conns[c] = Idle
    /\ \E user \in Users, id \in 1..nextId, body \in ObjectBodies \cup {TextBody} :
        LET out == HandleUpdateInvoice(invoices, nextId, user, id, body)
        IN  IF out.status \in {400, 404}
            THEN Serve("update", user, id, body, out)
            ELSE /\ conns' = [conns EXCEPT ![c] =
                                 [pc |-> "update", user |-> user, id |-> id, req |-> body]]
                 /\ UNCHANGED <<inv, arg, callee, ret, invoices, nextId, served, last,
                                users, nextUserId>>

\* the rest of that request: its UPDATE runs on the table as it is now, and
\* the response is written
UpdateWrites(c) ==
    /\ conns[c].pc = "update"
    /\ LET r == conns[c]
           i == BindJSON(r.req, "object").val[1]
           out == After(<<Call("Validate", 1, Validate(i)),
                          Call("CalculateTotals", 1, "none")>>,
                        UpdateStore(invoices, nextId, r.user, r.id, CalculateTotals(i)))
       IN  Respond("update", r.user, r.id, r.req, out)
    /\ conns' = [conns EXCEPT ![c] = Idle]

\* updates and deletes of the invoices generated, their statements
\* interleaved: the one statement of a delete may fall between the two of an
\* update
NextRace ==
    \/ GenerateOne
    \/ \E c \in Conns : UpdateChecks(c)
    \/ \E c \in Conns : UpdateWrites(c)
    \/ DeleteInvoice

SpecRace == Init /\ [][NextRace]_vars

\* SELECT COUNT(*) FROM users WHERE email = $1
SqlCountEmail(tbl, email) == Cardinality({u \in tbl : u.email = email})

\* pgx's text for a violation of users.email UNIQUE
ErrUniqueEmail ==
    "duplicate key value violates unique constraint \"users_email_key\""

\* as SqlInsertUser, on a table without the UNIQUE constraint on email
SqlInsertUserNotUnique(tbl, id, email, password) ==
    [err |-> "", rows |-> tbl \cup {[id |-> id, email |-> email, password |-> password]}]

\* INSERT INTO users (email, password, created_at) VALUES ($1, $2, $3)
\* RETURNING id; email is UNIQUE
SqlInsertUser(tbl, id, email, password) ==
    IF \E u \in tbl : u.email = email THEN [err |-> ErrUniqueEmail, rows |-> tbl]
    ELSE [err |-> "", rows |-> tbl \cup {[id |-> id, email |-> email, password |-> password]}]

\* the addresses clients register, and a body that fails the binding
Emails == {"a@example.com", "b@example.com"}

RegisterBodies ==
    {[email |-> e, password |-> "secret1", bound |-> TRUE] : e \in Emails}
        \cup {[email |-> "a.example.com", password |-> "secret1", bound |-> FALSE]}

\* the response a connection holds
Done(req, status, text) ==
    [pc |-> "done", op |-> "register", email |-> req.email, status |-> status,
     text |-> text]

\* handleRegister on connection c, up to the answer of its SELECT COUNT
RegisterChecks(c) ==
    /\ conns[c] = Idle
    /\ \E req \in RegisterBodies :
        conns' = [conns EXCEPT ![c] =
            IF ~req.bound THEN Done(req, 400, "Key: 'RegisterRequest.Email' Error:Field validation for 'Email' failed on the 'email' tag")
            ELSE IF SqlCountEmail(users, req.email) > 0
                 THEN Done(req, 400, "Email already registered")
            ELSE [pc |-> "register", email |-> req.email, password |-> req.password]]
    /\ UNCHANGED <<inv, arg, callee, ret, invoices, nextId, served, last, users, nextUserId>>

\* the rest of handleRegister: models.NewUser hashes the password, which may
\* fail, the INSERT runs on the table as it is now, and the response is written
RegisterInserts(c) ==
    /\ conns[c].pc = "register"
    /\ \E hashed \in BOOLEAN :
        LET req == conns[c]
            ins == SqlInsertUser(users, nextUserId, req.email, [bcrypt |-> req.password])
        IN  IF ~hashed
            THEN /\ conns' = [conns EXCEPT ![c] = Done(req, 500, "Failed to hash password")]
                 /\ UNCHANGED <<users, nextUserId>>
            ELSE /\ users' = ins.rows
                 /\ nextUserId' = nextUserId + 1
                 /\ conns' = [conns EXCEPT ![c] =
                        IF ins.err # "" THEN Done(req, 500, "Failed to create user")
                        ELSE Done(req, 201, "User registered successfully")]
    /\ UNCHANGED <<inv, arg, callee, ret, invoices, nextId, served, last>>

\* POST /api/register on MaxConns connections, the statements interleaved
NextRegister ==
    \/ \E c \in Conns : RegisterChecks(c)
    \/ \E c \in Conns : RegisterInserts(c)

SpecRegister == Init /\ [][NextRegister]_vars

\* one upload-excel request, of a longer sheet, to the server just started
UploadSheet ==
    /\ served = 0
    /\ UploadExcel(LongSheets \cup HeadlessSheets \cup FailingSheets \cup TextCellSheets)

NextUpload == UploadSheet

SpecUpload == Init /\ [][NextUpload]_vars

-----------------------------------------------------------------------------
(* Claims about models/invoice.go, checked under SpecInvoice *)

\* C1: after CalculateTotals every item of ItemList has TotAmt = AssAmt =
\* Qty * UnitPrice, IgstAmt = AssAmt * GstRt / 100 and TotItemVal = AssAmt +
\* IgstAmt, whatever the derived fields held before the call (Qty 2,
\* UnitPrice 15000, GstRt 18 gives 30000.00, 5400.00 and 35400.00).
C1_ItemAmounts ==
    callee = "CalculateTotals" =>
        \A j \in 1..Len(inv.ItemList) :
            LET it == inv.ItemList[j]
            IN  /\ it.TotAmt = FMul(it.Qty, it.UnitPrice)
                /\ it.AssAmt = it.TotAmt
                /\ it.IgstAmt = FPercent(it.AssAmt, it.GstRt)
                /\ it.TotItemVal = FAdd(it.AssAmt, it.IgstAmt)
                /\ (it.Qty = 2 /\ it.UnitPrice = 15000 /\ it.GstRt = 18
                        => /\ it.TotAmt = 3000000
                           /\ it.IgstAmt = 540000
                           /\ it.TotItemVal = 3540000)

\* a first CalculateTotals over an item (2, 15000, 18) whose derived fields
\* were stale has replaced them by 30000.00, 5400.00 and 35400.00
C1_Witness ==
    /\ callee = "CalculateTotals"
    /\ \E j \in 1..Len(inv.ItemList) :
        /\ arg.ItemList[j].AssAmt = Stale
        /\ arg.ItemList[j].TotItemVal = Stale
        /\ inv.ItemList[j].Qty = 2
        /\ inv.ItemList[j].UnitPrice = 15000
        /\ inv.ItemList[j].GstRt = 18
        /\ inv.ItemList[j].AssAmt = 3000000
        /\ inv.ItemList[j].IgstAmt = 540000
        /\ inv.ItemList[j].TotItemVal = 3540000

\* the items' field f added up from 0 in list order
RECURSIVE SumInOrder(_, _, _)
SumInOrder(items, f, acc) ==
    IF items = <<>> THEN acc
    ELSE SumInOrder(Tail(items), f, FAdd(acc, Head(items)[f]))

\* C2: after CalculateTotals ValDtls.AssVal is the sum of the items' AssAmt
\* and ValDtls.IgstVal the sum of their IgstAmt, both taken in list order,
\* and TotInvVal = AssVal + IgstVal; for an empty list all three are 0; what
\* ValDtls held before is overwritten.
C2_InvoiceTotals ==
    callee = "CalculateTotals" =>
        /\ inv.ValDtls.AssVal = SumInOrder(inv.ItemList, "AssAmt", 0)
        /\ inv.ValDtls.IgstVal = SumInOrder(inv.ItemList, "IgstAmt", 0)
        /\ inv.ValDtls.TotInvVal = FAdd(inv.ValDtls.AssVal, inv.ValDtls.IgstVal)
        /\ (inv.ItemList = <<>> =>
                inv.ValDtls = [AssVal |-> 0, IgstVal |-> 0, TotInvVal |-> 0])

\* a first CalculateTotals over two items (2, 15000, 18) and (2, 15000, 5)
\* has replaced a stale ValDtls by 60000.00, 6900.00 and 66900.00
C2_Witness ==
    /\ callee = "CalculateTotals"
    /\ arg.ValDtls = [AssVal |-> Stale, IgstVal |-> Stale, TotInvVal |-> Stale]
    /\ Len(inv.ItemList) = 2
    /\ inv.ItemList[1].IgstAmt = 540000
    /\ inv.ItemList[2].IgstAmt = 150000
    /\ inv.ValDtls = [AssVal |-> 6000000, IgstVal |-> 690000, TotInvVal |-> 6690000]

\* 2 digits, 5 uppercase letters, 4 digits, 1 uppercase letter, 1 uppercase
\* alphanumeric, the letter Z, 1 uppercase alphanumeric, and nothing else
GstinForm(s) ==
    /\ Len(s) = 15
    /\ s[1] \in Digit /\ s[2] \in Digit
    /\ s[3] \in Upper /\ s[4] \in Upper /\ s[5] \in Upper /\ s[6] \in Upper
    /\ s[7] \in Upper
    /\ s[8] \in Digit /\ s[9] \in Digit /\ s[10] \in Digit /\ s[11] \in Digit
    /\ s[12] \in Upper
    /\ s[13] \in Digit \cup Upper
    /\ s[14] = "Z"
    /\ s[15] \in Digit \cup Upper

\* C9: Validate accepts the seller GSTIN exactly when it has the 15-character
\* form; every other string is rejected with "invalid seller GSTIN format"
\* ("07AADCS0472N1Z1" passes, the 14-character "07AADCS0472N1Z" fails).
C9_GstinFormat ==
    callee = "Validate" =>
        /\ (ret = "invalid seller GSTIN format") <=> ~GstinForm(inv.SellerDtls.Gstin)
        /\ (inv.SellerDtls.Gstin = GoodGstin => ret # "invalid seller GSTIN format")
        /\ (inv.SellerDtls.Gstin = ShortGstin => ret = "invalid seller GSTIN format")

\* Validate has rejected the 14-character "07AADCS0472N1Z" of an invoice
\* whose items are all acceptable
C9_Witness ==
    /\ callee = "Validate"
    /\ inv.SellerDtls.Gstin = ShortGstin
    /\ Len(inv.ItemList) = 1
    /\ inv.ItemList[1].Qty = 2
    /\ inv.ItemList[1].UnitPrice = 15000
    /\ ret = "invalid seller GSTIN format"

\* float64 x >= 0 and x > 0
GeZero(x) == x # NaN /\ x >= 0

GtZero(x) == x # NaN /\ x > 0

\* the error the claim assigns to the first violating item from position j on
RECURSIVE FirstViolation(_, _)
FirstViolation(items, j) ==
    IF j > Len(items) THEN "nil"
    ELSE IF ~GeZero(items[j].Qty) THEN "quantity cannot be negative"
    ELSE IF ~GtZero(items[j].UnitPrice) THEN "unit price must be greater than zero"
    ELSE FirstViolation(items, j + 1)

\* C10: for a well-formed seller GSTIN Validate returns nil exactly when every
\* item has Qty >= 0 and UnitPrice > 0 (Qty = 0 accepted, UnitPrice <= 0
\* rejected, an empty list accepted), and the error is that of the first
\* violating item in list order, quantity before price.
C10_ItemRules ==
    (callee = "Validate" /\ GstinForm(inv.SellerDtls.Gstin)) =>
        /\ (ret = "nil") <=>
                \A j \in 1..Len(inv.ItemList) :
                    GeZero(inv.ItemList[j].Qty) /\ GtZero(inv.ItemList[j].UnitPrice)
        /\ ret = FirstViolation(inv.ItemList, 1)

\* a and b agree on SellerDtls.Gstin and on every item's Qty and UnitPrice
AgreeOnValidated(a, b) ==
    /\ a.SellerDtls.Gstin = b.SellerDtls.Gstin
    /\ Len(a.ItemList) = Len(b.ItemList)
    /\ \A j \in 1..Len(a.ItemList) :
        /\ a.ItemList[j].Qty = b.ItemList[j].Qty
        /\ a.ItemList[j].UnitPrice = b.ItemList[j].UnitPrice

\* i with its buyer, its document number and date, its tax rates, its derived
\* amounts and its totals replaced, one group at a time and all at once
Reshaped(i) ==
    LET buyer == [i EXCEPT !.BuyerDtls.Gstin = "", !.BuyerDtls.LglNm = "",
                           !.BuyerDtls.Pin = 0]
        doc(x) == [x EXCEPT !.DocDtls.No = "", !.DocDtls.Dt = "31-02-2023"]
        rates(x, r) == [x EXCEPT !.ItemList =
                            [j \in 1..Len(x.ItemList) |-> [x.ItemList[j] EXCEPT !.GstRt = r]]]
        amounts(x, d) == [x EXCEPT !.ItemList =
                            [j \in 1..Len(x.ItemList) |->
                                [x.ItemList[j] EXCEPT !.TotAmt = d, !.AssAmt = d,
                                                      !.IgstAmt = d, !.TotItemVal = d]]]
        totals(x, d) == [x EXCEPT !.ValDtls = [AssVal |-> d, IgstVal |-> d, TotInvVal |-> d]]
    IN  {buyer, doc(i), rates(i, -1), rates(i, NaN), amounts(i, 0 - Stale),
         amounts(i, NaN), totals(i, 0 - Stale), totals(i, NaN),
         totals(amounts(rates(doc(buyer), -1), NaN), 0 - Stale)}

\* C11: Validate gives an invoice that agrees with the validated one on
\* SellerDtls.Gstin and on each item's Qty and UnitPrice the same result,
\* whatever its buyer fields, document number and date, tax rates, derived
\* amounts and totals.
C11_ValidateReadsOnlyValidated ==
    callee = "Validate" =>
        \A v \in Reshaped(inv) : AgreeOnValidated(v, inv) /\ Validate(v) = ret

\* Validate has rejected an invoice for its unit price, and rejects for the
\* same reason the invoice with an empty buyer, no document number, negative
\* tax rates and NaN amounts
C11_Witness ==
    /\ callee = "Validate"
    /\ ret = "unit price must be greater than zero"
    /\ Len(inv.ItemList) = 2
    /\ \E v \in Reshaped(inv) :
        /\ v.BuyerDtls.Gstin = "" /\ v.DocDtls.No = ""
        /\ v.ItemList[1].GstRt = -1 /\ v.ItemList[1].AssAmt = NaN
        /\ Validate(v) = ret

\* the fields of an item that CalculateTotals may assign
DerivedFields == {"TotAmt", "AssAmt", "IgstAmt", "TotItemVal"}

\* C12: CalculateTotals leaves the number and order of the items, every
\* item's Qty, UnitPrice, GstRt, SlNo and descriptive fields, and every
\* section of the invoice other than ValDtls as they were before the call.
C12_CalculateTotalsFrame ==
    callee = "CalculateTotals" =>
        /\ Len(inv.ItemList) = Len(arg.ItemList)
        /\ \A j \in 1..Len(arg.ItemList) :
            \A f \in DOMAIN arg.ItemList[j] \ DerivedFields :
                inv.ItemList[j][f] = arg.ItemList[j][f]
        /\ \A f \in DOMAIN arg \ {"ItemList", "ValDtls"} : inv[f] = arg[f]

\* a first CalculateTotals has changed the derived amounts of two items with
\* different tax rates and the ValDtls of their invoice
C12_Witness ==
    /\ callee = "CalculateTotals"
    /\ Len(arg.ItemList) = 2
    /\ arg.ItemList[1].GstRt = 18 /\ arg.ItemList[2].GstRt = 5
    /\ arg.ItemList[1].AssAmt = Stale
    /\ inv.ItemList[1].AssAmt # arg.ItemList[1].AssAmt
    /\ inv.ItemList[2].IgstAmt # arg.ItemList[2].IgstAmt
    /\ inv.ValDtls # arg.ValDtls

SameTotals(a, b) ==
    /\ Len(a.ItemList) = Len(b.ItemList)
    /\ \A j \in 1..Len(a.ItemList) :
        \A f \in DerivedFields : a.ItemList[j][f] = b.ItemList[j][f]
    /\ a.ValDtls = b.ValDtls

\* C14: CalculateTotals applied to a calculated invoice again, directly or
\* after json.Marshal and json.Unmarshal of it, yields the per-item derived
\* amounts and the ValDtls of the first calculation.
C14_RecomputeAfterRoundTrip ==
    (callee = "CalculateTotals" /\ ~Marshal(inv).err) =>
        /\ SameTotals(CalculateTotals(inv), inv)
        /\ SameTotals(CalculateTotals(Unmarshal(Marshal(inv).json)), inv)

\* an invoice calculated to a negative amount with decimals (2 at -1.00 and
\* 18 per cent gives IGST -0.36) can be serialized
C14_Witness ==
    /\ callee = "CalculateTotals"
    /\ ~Marshal(inv).err
    /\ Len(inv.ItemList) = 2
    /\ inv.ItemList[1].UnitPrice = -1
    /\ inv.ItemList[1].IgstAmt = -36
    /\ inv.ItemList[2].IgstAmt = 540000
    /\ Unmarshal(Marshal(inv).json) = inv

-----------------------------------------------------------------------------
(* Claims about batches, checked under SpecImport *)

\* the validation errors of upload-excel, "Invoice <no>: <reason>"
UploadValidationErrors ==
    {"Invoice " \o no \o ": " \o e : no \in DocNos, e \in {ErrGstin, ErrQty, ErrPrice}}

\* C3: an upload-excel request answered with the validation error
\* "Invoice <no>: <reason>" leaves the stored invoices exactly as they were
\* before the upload.
C3_UploadAbortsWholeBatch ==
    [][(last'.op = "upload-excel" /\ last'.error \in UploadValidationErrors)
        => invoices' = invoices]_vars

\* C4: when a generate-invoice or import-json request fails at its k-th
\* invoice (validation, or the database rejecting the write), none of the
\* invoices 1..k-1 it had already put into its results is stored.
C4_RequestAllOrNothing ==
    [][(last'.op \in {"generate-invoice", "import-json"} /\ last'.status # 201)
        => \A k \in 1..Len(last'.results) :
               ~\E r \in invoices' : r.id = last'.results[k].id]_vars

\* the sheet's data rows of fewer than 12 columns, by 1-based row index
ShortRows(rows) == {n \in 2..Len(rows) : Len(rows[n]) < 12}

FirstOf(S) == CHOOSE n \in S : \A m \in S : n <= m

\* the data rows that fail validation on their own (unit price not above 0)
InvalidRows(rows) ==
    {n \in 2..Len(rows) : Len(rows[n]) >= 12 /\ FNonPos(ParseFloat(rows[n][10]))}

\* C5: an upload-excel request whose sheet has a data row of fewer than 12
\* columns is answered 400 "Row <n> does not have enough columns", n the
\* 1-based index in the sheet of the first such row, and stores nothing,
\* whatever validation failures the sheet holds as well.
C5_ShortRowAbortsBatch ==
    [][(last'.op = "upload-excel" /\ ShortRows(last'.req) # {})
        => /\ last'.status = 400
           /\ last'.error = "Row " \o Itoa(FirstOf(ShortRows(last'.req)))
                                \o " does not have enough columns"
           /\ last'.results = <<>>
           /\ invoices' = invoices]_vars

\* an upload onto stored invoices whose sheet has an invalid row ahead of a
\* short row was answered with the short row's index
C5_Witness ==
    /\ last.op = "upload-excel"
    /\ ShortRows(last.req) = {3}
    /\ InvalidRows(last.req) = {2}
    /\ last.error = "Row 3 does not have enough columns"
    /\ invoices # {}

\* the aggregate an upload-excel request builds for document number no: the
\* header of the first row of that number, an item per row of that number
RowsOfNo(rows, no) ==
    SelectSeq(SubSeq(rows, 2, Len(rows)), LAMBDA row : row[2] = no)

ImportedBySheet(rows, no) ==
    LET sel == RowsOfNo(rows, no)
    IN  CalculateTotals([RowInvoice(sel[1]) EXCEPT
            !.ItemList = [k \in 1..Len(sel) |-> RowItem(sel[k], k - 1)]])

\* the aggregate the request l imports for document number no
Imported(l, no) ==
    IF l.op = "upload-excel" THEN ImportedBySheet(l.req, no)
    ELSE CalculateTotals(Unmarshal(l.req.docs[1]))

RowsWithNo(tbl, no) == {r \in tbl : r.invoice_no = no}

\* C6: when upload-excel or import-json stores a document number that is
\* already stored, there is afterwards exactly one row of that number, it
\* has the id it had before (the id the response gives), and the items and
\* ValDtls of its blob are those of the new import, not the old items with
\* new ones appended.
C6_ReimportReplaces ==
    [][last'.op \in {"upload-excel", "import-json"}
        => \A k \in 1..Len(last'.results) :
            LET no == last'.results[k].invoice_no
                new == RowOfNo(invoices', no)
                blob == Unmarshal(new.invoice_json)
            IN  HasNo(invoices, no)
                => /\ Cardinality(RowsWithNo(invoices', no)) = 1
                   /\ new.id = RowOfNo(invoices, no).id
                   /\ last'.results[k].id = new.id
                   /\ blob.ItemList = Imported(last', no).ItemList
                   /\ blob.ValDtls = Imported(last', no).ValDtls]_vars

\* an import of one item answered with the id of a row stored earlier, whose
\* blob now carries another seller than the row was created with
C6_Witness ==
    /\ last.op = "import-json"
    /\ last.status = 201
    /\ \E r \in invoices :
        /\ r.id = last.results[1].id
        /\ r.id < nextId - 1
        /\ Len(Unmarshal(r.invoice_json).ItemList) = 1
        /\ Unmarshal(r.invoice_json).SellerDtls.Gstin # r.seller_gstin

\* the sheet has a header row and data rows, all of 12 columns or more
Parsed(rows) == Len(rows) >= 2 /\ ShortRows(rows) = {}

\* the document numbers among the data rows
NosOf(rows) == {rows[n][2] : n \in 2..Len(rows)}

\* the first data row carrying the document number no
FirstRowOf(rows, no) == rows[FirstOf({n \in 2..Len(rows) : rows[n][2] = no})]

\* seller GSTIN, document date, buyer GSTIN, buyer name, buyer address and
\* buyer location: of an aggregate, and the columns a row holds for them
HeaderOf(i) ==
    <<i.SellerDtls.Gstin, i.DocDtls.Dt, i.BuyerDtls.Gstin, i.BuyerDtls.LglNm,
      i.BuyerDtls.Addr1, i.BuyerDtls.Loc>>

RowHeader(row) == <<row[1], row[3], row[4], row[5], row[6], row[7]>>

\* C15: an upload whose rows all parse builds exactly one aggregate per
\* distinct document number among the data rows, with the header columns of
\* the first row of that number, and the blob it stores for a number carries
\* that header; header columns of later rows of the number are ignored.
C15_FirstRowGivesHeader ==
    [][(last'.op = "upload-excel" /\ Parsed(last'.req))
        => LET p == ReadRows(last'.req)
           IN  /\ p.err = ""
               /\ DOMAIN p.invoiceMap = NosOf(last'.req)
               /\ \A no \in NosOf(last'.req) :
                    /\ p.invoiceMap[no].DocDtls.No = no
                    /\ HeaderOf(p.invoiceMap[no]) = RowHeader(FirstRowOf(last'.req, no))
               /\ \A k \in 1..Len(last'.results) :
                    LET no == last'.results[k].invoice_no
                    IN  /\ no \in NosOf(last'.req)
                        /\ \A j \in 1..Len(last'.results) :
                               last'.results[j].invoice_no = no => j = k
                        /\ HeaderOf(Unmarshal(RowOfNo(invoices', no).invoice_json))
                               = RowHeader(FirstRowOf(last'.req, no))]_vars

\* an upload of two rows of one document number with different sellers,
\* dates and buyers has stored one invoice, with the first row's header
C15_Witness ==
    /\ last.op = "upload-excel"
    /\ last.status = 201
    /\ Len(last.req) = 3
    /\ last.req[2][2] = last.req[3][2]
    /\ \A c \in {1, 3, 4, 5} : last.req[2][c] # last.req[3][c]
    /\ Len(last.results) = 1
    /\ HeaderOf(Unmarshal(RowOfNo(invoices, last.req[2][2]).invoice_json))
           = RowHeader(last.req[2])

-----------------------------------------------------------------------------
(* Claims about the stored invoices, checked under Spec *)

\* C7: every stored blob passes Validate, and CalculateTotals leaves it as it
\* is: each TotAmt, AssAmt, IgstAmt, TotItemVal and the ValDtls are the
\* values computed from Qty, UnitPrice and GstRt, not the client's.
C7_StoredBlobsValidAndComputed ==
    \A r \in invoices :
        LET i == Unmarshal(r.invoice_json)
        IN  Validate(i) = "nil" /\ CalculateTotals(i) = i

\* an update whose body carried derived values of the client's own was
\* stored, with the computed values in their place
C7_Witness ==
    /\ last.op = "update"
    /\ last.status = 200
    /\ \E r \in invoices :
        /\ r.id = last.id
        /\ Unmarshal(last.req.docs[1]).ValDtls.TotInvVal = Stale
        /\ Unmarshal(r.invoice_json) # Unmarshal(last.req.docs[1])
        /\ Unmarshal(r.invoice_json) = CalculateTotals(Unmarshal(last.req.docs[1]))

\* at most one stored row per document number
OnePerNo == \A r1, r2 \in invoices : r1.invoice_no = r2.invoice_no => r1 = r2

\* the document numbers of a generate-invoice body that are stored in tbl
StoredNos(body, tbl) ==
    IF body.shape # "array" THEN {}
    ELSE {no \in {Unmarshal(body.docs[k]).DocDtls.No : k \in 1..Len(body.docs)} :
            HasNo(tbl, no)}

\* C8: there is never more than one stored row of a document number, and a
\* generate-invoice request carrying a document number that is already
\* stored is answered with an error and leaves that number's row (blob, QR
\* code, owner) as it was.
C8_UniqueDocumentNumber ==
    /\ []OnePerNo
    /\ [][(last'.op = "generate-invoice" /\ StoredNos(last'.req, invoices) # {})
            => /\ last'.status # 201
               /\ last'.error # ""
               /\ \A no \in StoredNos(last'.req, invoices) :
                      RowOfNo(invoices, no) \in invoices']_vars

\* a generate-invoice request was refused by the database while the table
\* held the document number it carried
C8_Witness ==
    /\ last.op = "generate-invoice"
    /\ last.status = 500
    /\ last.error = "Failed to store invoice"
    /\ StoredNos(last.req, invoices) # {}

\* C17: the QR code of every stored row encodes the string
\* "<DocDtls.No>:<ValDtls.TotInvVal to 2 decimals>" of the blob stored in the
\* same row (for INV-001 with a total of 35400 the string "INV-001:35400.00").
C17_QrMatchesBlob ==
    \A r \in invoices :
        LET i == Unmarshal(r.invoice_json)
        IN  /\ r.qr_code = QrEncode(i.DocDtls.No \o ":" \o FormatFixed2(i.ValDtls.TotInvVal))
            /\ (i.DocDtls.No = "INV-001" /\ i.ValDtls.TotInvVal = 3540000
                    => r.qr_code = QrEncode("INV-001:35400.00"))

\* an update has given a row stored as INV-001 the blob of INV-002 with a
\* total of 35610.00, and the row's QR code encodes "INV-002:35610.00"
C17_Witness ==
    /\ last.op = "update"
    /\ last.status = 200
    /\ \E r \in invoices :
        /\ r.id = last.id
        /\ Unmarshal(r.invoice_json).DocDtls.No = "INV-002"
        /\ Unmarshal(r.invoice_json).ValDtls.TotInvVal = 3561000
        /\ r.qr_code = QrEncode("INV-002:35610.00")

\* C18: a request other than the update (PUT /api/invoices/:id) leaves the
\* blob of every invoice that is stored before it and after it as it was.
C18_BlobChangedByUpdateOnly ==
    [][last'.op # "update"
        => \A r \in invoices : \A q \in invoices' :
               q.id = r.id => q.invoice_json = r.invoice_json]_vars

\* C21: in the requests that persist an invoice, every call of
\* CalculateTotals on an aggregate comes after a call of Validate on that
\* aggregate that returned nil.
C21_ValidateBeforeCalculate ==
    last.op \in {"generate-invoice", "upload-excel", "import-json", "update"}
        => \A j \in 1..Len(last.calls) :
               last.calls[j].fn = "CalculateTotals"
               => \E i \in 1..(j - 1) :
                      /\ last.calls[i].fn = "Validate"
                      /\ last.calls[i].of = last.calls[j].of
                      /\ last.calls[i].ret = "nil"

\* C22: an upload-excel or import-json request leaves the blob and the QR
\* code of every row owned by another user than the requester as they were.
C22_ImportLeavesOthersRows ==
    [][last'.op \in {"upload-excel", "import-json"}
        => \A r \in invoices :
               r.user_id # last'.user
               => \E q \in invoices' :
                      /\ q.id = r.id
                      /\ q.invoice_json = r.invoice_json
                      /\ q.qr_code = r.qr_code]_vars

\* C24: in every stored row the seller_gstin column is SellerDtls.Gstin of
\* the blob and the invoice_no column is DocDtls.No of the blob.
C24_ColumnsMatchBlob ==
    \A r \in invoices :
        LET i == Unmarshal(r.invoice_json)
        IN  /\ r.seller_gstin = i.SellerDtls.Gstin
            /\ r.invoice_no = i.DocDtls.No

\* C27: an import-json request whose body is one valid invoice, or a
\* non-empty array of valid invoices, is answered 201 with one result per
\* invoice, each invoice stored validated and computed.
C27_ImportAcceptsBothShapes ==
    (/\ last.op = "import-json"
     /\ last.req.shape \in {"object", "array"}
     /\ last.req.docs # <<>>
     /\ \A k \in 1..Len(last.req.docs) : Validate(Unmarshal(last.req.docs[k])) = "nil")
        => /\ last.status = 201
           /\ Len(last.results) = Len(last.req.docs)
           /\ \A k \in 1..Len(last.results) :
                  /\ last.results[k].invoice_no = Unmarshal(last.req.docs[k]).DocDtls.No
                  /\ HasNo(invoices, last.results[k].invoice_no)

\* C28: a row marked exported stays exported in every later state in which
\* it exists, whatever request is served, and a row that is marked exported
\* leaves the table only by a delete request for its id.
C28_ExportedStays ==
    [][\A r \in invoices :
           r.exported
           => /\ \A q \in invoices' : q.id = r.id => q.exported
              /\ (\E q \in invoices' : q.id = r.id)
                    \/ (last'.op = "delete" /\ last'.id = r.id /\ last'.status = 200)]_vars

\* an invoice marked exported has been imported again by an upsert
\* and is still marked exported
C28_Witness ==
    /\ last.op \in {"upload-excel", "import-json"}
    /\ last.status = 201
    /\ Len(last.results) = 1
    /\ last.results[1].id < nextId - 1
    /\ \E r \in invoices : r.id = last.results[1].id /\ r.exported

-----------------------------------------------------------------------------
(* Claims about the reading of a sheet, checked under SpecUpload *)

\* the item it is the k-th of its document number and was read from row
ItemOfRow(it, row, k) ==
    /\ it.SlNo = Itoa(k)
    /\ it.PrdDesc = row[6] /\ it.HsnCd = row[7] /\ it.Unit = row[9]
    /\ it.Qty = ParseFloat(row[8])
    /\ it.UnitPrice = ParseFloat(row[10])
    /\ it.GstRt = ParseFloat(row[11])

\* items holds one item per data row of the sheet carrying no, in sheet order
ItemsFollowRows(items, rows, no) ==
    /\ Len(items) = Len(RowsOfNo(rows, no))
    /\ \A k \in 1..Len(items) : ItemOfRow(items[k], RowsOfNo(rows, no)[k], k)

\* C16: an upload whose rows all parse gives the aggregate of each document
\* number one item per data row carrying the number, in the order of those
\* rows in the sheet also when rows of other numbers lie between them, with
\* SlNo "1", "2", ..., "n" in that order; so has every blob it stores.
C16_ItemsInSheetOrder ==
    [][(last'.op = "upload-excel" /\ Parsed(last'.req))
        => LET p == ReadRows(last'.req)
           IN  /\ \A no \in NosOf(last'.req) :
                    ItemsFollowRows(p.itemMap[no], last'.req, no)
               /\ \A k \in 1..Len(last'.results) :
                    ItemsFollowRows(
                        Unmarshal(RowOfNo(invoices', last'.results[k].invoice_no)
                                      .invoice_json).ItemList,
                        last'.req, last'.results[k].invoice_no)]_vars

\* an upload of a row of INV-001, a row of INV-002 and a different row of
\* INV-001 has stored INV-001 with the two items "1" and "2" in that order
C16_Witness ==
    /\ last.op = "upload-excel"
    /\ last.status = 201
    /\ Len(last.req) = 4
    /\ last.req[2][2] = "INV-001" /\ last.req[3][2] = "INV-002"
    /\ last.req[4][2] = "INV-001"
    /\ last.req[2][6] # last.req[4][6]
    /\ Len(last.results) = 2
    /\ LET items == Unmarshal(RowOfNo(invoices, "INV-001").invoice_json).ItemList
       IN  /\ Len(items) = 2
           /\ items[1].SlNo = "1" /\ items[1].PrdDesc = last.req[2][6]
           /\ items[2].SlNo = "2" /\ items[2].PrdDesc = last.req[4][6]

\* the number of items in an itemMap
RECURSIVE ItemTotal(_)
ItemTotal(itemMap) ==
    IF DOMAIN itemMap = {} THEN 0
    ELSE LET no == CHOOSE x \in DOMAIN itemMap : TRUE
         IN  Len(itemMap[no])
             + ItemTotal([x \in DOMAIN itemMap \ {no} |-> itemMap[x]])

\* the rows after the first that carry the document number no
RowsAfterFirst(rows, no) == {n \in 2..Len(rows) : rows[n][2] = no}

\* C20: an upload never makes an item of the first row of the sheet: when
\* every later row has 12 columns the rows are read without error whatever
\* the first row holds, the aggregates hold one item per later row and only
\* the document numbers of later rows, and so do the stored blobs; a sheet of
\* fewer than 2 rows is answered 400 "Excel file does not contain enough
\* data" and the table stays as it was.
C20_FirstRowSkipped ==
    [][last'.op = "upload-excel"
        => LET rows == last'.req
               p == ReadRows(rows)
           IN  /\ Len(rows) < 2
                    => /\ last'.status = 400
                       /\ last'.error = "Excel file does not contain enough data"
                       /\ invoices' = invoices
                       /\ nextId' = nextId
               /\ (Len(rows) >= 2 /\ \A n \in 2..Len(rows) : Len(rows[n]) >= 12)
                    => /\ p.err = ""
                       /\ ItemTotal(p.itemMap) = Len(rows) - 1
                       /\ \A no \in DOMAIN p.itemMap :
                              Len(p.itemMap[no]) = Cardinality(RowsAfterFirst(rows, no))
                       /\ \A k \in 1..Len(last'.results) :
                              LET no == last'.results[k].invoice_no
                              IN  Len(Unmarshal(RowOfNo(invoices', no).invoice_json).ItemList)
                                      = Cardinality(RowsAfterFirst(rows, no))]_vars

\* an upload of a sheet whose first row is a valid data row of INV-001 and
\* whose second row is one of INV-002 has stored INV-002 only
C20_Witness ==
    /\ last.op = "upload-excel"
    /\ last.status = 201
    /\ Len(last.req) = 2
    /\ Len(last.req[1]) = 12
    /\ last.req[1][2] = "INV-001" /\ last.req[2][2] = "INV-002"
    /\ ~FNonPos(ParseFloat(last.req[1][10]))
    /\ Len(last.results) = 1
    /\ ~HasNo(invoices, "INV-001")
    /\ HasNo(invoices, "INV-002")

\* the document numbers of the sheet whose aggregate fails validation
FailingNos(p) ==
    {no \in Keys(p) :
        Validate(CalculateTotals([p.invoiceMap[no] EXCEPT !.ItemList = p.itemMap[no]]))
            # "nil"}

\* C26: the response to an upload of a sheet in which two or more document
\* numbers fail validation, and the rows stored by it, are those of every
\* run of the handler on that sheet and that table, whatever order the range
\* over invoiceMap takes.
C26_UploadOutcomeIsFunction ==
    [][(last'.op = "upload-excel"
            /\ Cardinality(FailingNos(ReadRows(last'.req))) >= 2)
        => LET p == ReadRows(last'.req)
           IN  \A order \in Orders(Keys(p)) :
                   LET out == HandleUploadExcel(invoices, nextId, last'.user, p, order)
                   IN  /\ out.status = last'.status
                       /\ out.error = last'.error
                       /\ out.rows = invoices']_vars

\* the cell holds text strconv.ParseFloat returns an error for
NotANumber(cs) == ~AllDigits(Unsigned(cs)) /\ cs # <<"N", "a", "N">>

\* the data rows with a quantity, unit-price or tax-rate cell of that kind
TextRows(rows) ==
    {n \in 2..Len(rows) :
        Len(rows[n]) >= 12 /\ \E c \in {8, 10, 11} : NotANumber(rows[n][c])}

\* C29: an upload of a sheet with a data row whose quantity, unit-price or
\* tax-rate cell is not a number is rejected, and stores nothing.
C29_TextCellRejectsBatch ==
    [][(last'.op = "upload-excel" /\ TextRows(last'.req) # {})
        => last'.status # 201 /\ invoices' = invoices]_vars

-----------------------------------------------------------------------------
(* Claims about the export, checked under SpecExport *)

\* the number of items of the invoices in rs
RECURSIVE ItemCount(_)
ItemCount(rs) ==
    IF rs = {} THEN 0
    ELSE LET r == CHOOSE x \in rs : TRUE
         IN  Len(Unmarshal(r.invoice_json).ItemList) + ItemCount(rs \ {r})

\* seller GSTIN, document date, buyer GSTIN and buyer name of an invoice
ExportedHeader(i) ==
    <<i.SellerDtls.Gstin, i.DocDtls.Dt, i.BuyerDtls.Gstin, i.BuyerDtls.LglNm>>

\* description, HSN code, quantity, unit, unit price and tax rate of an item
ExportedItem(it) == <<it.PrdDesc, it.HsnCd, it.Qty, it.Unit, it.UnitPrice, it.GstRt>>

\* new has the header, the ordered items and the totals of old
Reproduces(new, old) ==
    /\ ExportedHeader(new) = ExportedHeader(old)
    /\ Len(new.ItemList) = Len(old.ItemList)
    /\ \A j \in 1..Len(old.ItemList) :
           ExportedItem(new.ItemList[j]) = ExportedItem(old.ItemList[j])
    /\ SameTotals(new, old)

\* C19: the exported sheet has, after its header row, one row per item of
\* the user's stored invoices, and its upload by that user succeeds and
\* yields, for each of the user's document numbers, an aggregate with the
\* same seller GSTIN, date, buyer GSTIN and name, ordered items and totals.
C19_ExportInvertsImport ==
    [][/\ last'.op = "export-invoices"
           => Len(last'.results)
                  = 1 + ItemCount({r \in invoices : r.user_id = last'.user})
       /\ (last.op = "export-invoices" /\ last'.op = "upload-excel")
           => \A r \in {x \in invoices : x.user_id = last.user} :
               /\ last'.status = 201
               /\ \E k \in 1..Len(last'.results) :
                      last'.results[k].invoice_no = r.invoice_no
               /\ Reproduces(Unmarshal(RowOfNo(invoices', r.invoice_no).invoice_json),
                             Unmarshal(r.invoice_json))]_vars

-----------------------------------------------------------------------------
(* Claims about access to the invoices of a user, checked under SpecAccess *)

\* the requests that name an invoice by its id
ByIdOps == {"invoice", "update", "delete", "mark-exported", "qr", "export-json"}

\* the request l names an id that is no row of the table tbl owned by its user
NotOwned(l, tbl) ==
    l.op \in ByIdOps /\ ~\E r \in tbl : r.id = l.id /\ r.user_id = l.user

\* the body of the update request l is an invoice that passes Validate
ValidBody(l) ==
    /\ BindJSON(l.req, "object").err = ""
    /\ Validate(BindJSON(l.req, "object").val[1]) = "nil"

\* the requests for all invoices of a user answer with rows of that user only,
\* and with all of them
OwnRowsOnly(l, tbl) ==
    LET own == {r \in tbl : r.user_id = l.user}
    IN  /\ l.op = "invoices"
            => {l.results[k].id : k \in 1..Len(l.results)} = {r.id : r \in own}
        /\ l.op = "export-all-json"
            => {l.results[k] : k \in 1..Len(l.results)} = {r.invoice_json : r \in own}
        /\ l.op = "export-invoices"
            => \A k \in 2..Len(l.results) :
                   \E r \in own : /\ r.invoice_no = l.results[k][2]
                                  /\ r.seller_gstin = l.results[k][1]

\* C23 as stated: a request by id for an invoice that is not a row of the
\* requesting user is answered 404 and leaves the table as it was; the list
\* and export requests answer with rows of the requesting user only.
C23_NotOwnedIs404 ==
    [][/\ NotOwned(last', invoices) => last'.status = 404 /\ invoices' = invoices
       /\ last'.op \in {"invoices", "export-all-json", "export-invoices"}
            => OwnRowsOnly(last', invoices)]_vars

\* C23, amended: as above, but an update whose body does not bind or does not
\* pass Validate is answered 400, since handleUpdateInvoice checks the body
\* before it looks the invoice up.
C23_NotOwnedIs404OrBadBody ==
    [][/\ NotOwned(last', invoices)
            => /\ invoices' = invoices
               /\ IF last'.op = "update" /\ ~ValidBody(last')
                  THEN last'.status = 400
                  ELSE last'.status = 404
       /\ last'.op \in {"invoices", "export-all-json", "export-invoices"}
            => OwnRowsOnly(last', invoices)]_vars

\* user 2 has sent a valid update for the id of an invoice of user 1 and got
\* 404, the invoice being stored as before
C23_Witness ==
    /\ last.op = "update"
    /\ last.status = 404
    /\ ValidBody(last)
    /\ \E r \in invoices :
           /\ r.id = last.id
           /\ r.user_id # last.user
           /\ Unmarshal(r.invoice_json).DocDtls.No
                  # BindJSON(last.req, "object").val[1].DocDtls.No

-----------------------------------------------------------------------------
(* Claims about interleaved requests, checked under SpecRace *)

\* C25: when an update is answered 200, the aggregate it computed from its
\* body is stored under its id at that moment, also when a delete of the
\* invoice ran between the update's COUNT and its UPDATE.
C25_UpdateSuccessMeansStored ==
    [][(served' # served /\ last'.op = "update" /\ last'.status = 200)
        => \E r \in invoices' :
               /\ r.id = last'.id
               /\ r.user_id = last'.user
               /\ r.invoice_json
                      = Marshal(CalculateTotals(
                            BindJSON(last'.req, "object").val[1])).json]_vars

-----------------------------------------------------------------------------
(* Claims about registration, checked under SpecRegister *)

\* the connections whose registration of email was answered with status
Answered(email, status) ==
    {c \in Conns : /\ conns[c].pc = "done"
                   /\ conns[c].email = email
                   /\ conns[c].status = status}

\* C30: whatever way the statements of concurrent registrations of one email
\* address interleave, at most one users row has that address and at most
\* one of the requests is answered 201 "User registered successfully"; a
\* request answered otherwise has created no row.
C30_OneRowPerEmail ==
    \A e \in Emails :
        /\ Cardinality({u \in users : u.email = e}) <= 1
        /\ Cardinality(Answered(e, 201)) <= 1
        /\ Cardinality({u \in users : u.email = e}) = Cardinality(Answered(e, 201))
        /\ \A c \in Answered(e, 201) : conns[c].text = "User registered successfully"

\* two registrations of one address both passed the COUNT check; one was
\* answered 201 and the other 500 "Failed to create user"
C30_Witness ==
    \E c, d \in Conns :
        /\ conns[c].pc = "done" /\ conns[d].pc = "done"
        /\ conns[c].email = conns[d].email
        /\ conns[c].status = 201
        /\ conns[d].status = 500 /\ conns[d].text = "Failed to create user"
        /\ Cardinality({u \in users : u.email = conns[c].email}) = 1

====
